---- MODULE Spec2Model ----
(***************************************************************************)
(* Jack Attack: the game engine of core/game.ts as a state machine.        *)
(* The state is the GameState value the caller holds; every action is one  *)
(* call of an exported engine function on it, replacing it by the result.  *)
(* Display-only data (names, avatars, the pass screen) is left out;        *)
(* lastAction is kept as a short tag.  SpecDriver is the App component     *)
(* around the engine: its clicks, timers and animation ends.               *)
(***************************************************************************)
EXTENDS Integers, Sequences, FiniteSets, TLC

VARIABLES gameState,   \* the GameState the caller holds (core/types.ts GameState)
          script,      \* calls the caller has still to make before it acts freely
          budget,      \* free calls the caller may still make
          lastCall,    \* name of the engine function called last
          moveCheck,   \* the last isValidMove call and its result, <<>> before any
          view,        \* the driver's view state: "playing" or "gameover"
          flyingCard,  \* the driver's running animation and its onComplete closure, or <<>>
          winTimer,    \* checkWin's timeout is pending
          beforeHuman  \* the state the human's latest play or draw was applied to, or <<>>

vars == <<gameState, script, budget, lastCall, moveCheck, view, flyingCard, winTimer, beforeHuman>>

-----------------------------------------------------------------------------
(* Bounds *)

\* free calls explored after a scenario's script has run
MaxFree == 2
\* Math.random() is drawn from { r / (MaxRandom + 1) : r \in 0..MaxRandom }
MaxRandom == 1
\* shuffle outcomes tried when the discard pile is recycled: 0..MaxShuffle
MaxShuffle == 1
\* pendingPickup values tried for isValidMove: 0..MaxPending
MaxPending == 5
\* numPlayers values tried for createNewGame: -MaxPlayersArg..MaxPlayersArg
MaxPlayersArg == 6

-----------------------------------------------------------------------------
(* core/types.ts *)

Null == "null"

\* Object.values(Suit), Object.values(Rank): declaration order
Suits == <<"Hearts", "Diamonds", "Clubs", "Spades">>
Ranks == <<"2", "3", "4", "5", "6", "7", "8", "9", "10", "J", "Q", "K", "A">>

SuitSet == {Suits[i] : i \in 1..Len(Suits)}
RankSet == {Ranks[i] : i \in 1..Len(Ranks)}

\* a Card; its id `${suit}-${rank}` is the pair
Card(suit, rank) == [id |-> <<suit, rank>>, suit |-> suit, rank |-> rank]

Cards == {Card(s, r) : s \in SuitSet, r \in RankSet}

\* an id no card has (the driver's 'temp-draw' dummy card)
UnknownCardId == <<"temp", "draw">>

-----------------------------------------------------------------------------
(* Sequence helpers (Array.prototype) *)

Range(seq) == {seq[i] : i \in 1..Len(seq)}

\* seq.splice(i, 1) for a 1-based i
RemoveAt(seq, i) == SubSeq(seq, 1, i - 1) \o SubSeq(seq, i + 1, Len(seq))

\* seq.pop(): the rest
Front(seq) == SubSeq(seq, 1, Len(seq) - 1)

Last(seq) == seq[Len(seq)]

\* the JavaScript % operator: the sign follows the dividend
JsRem(a, n) == IF a >= 0 THEN a % n ELSE -((-a) % n)

\* Math.floor(Math.random() * n) for the random number r / (MaxRandom + 1)
RandomIndex(r, n) == (r * n) \div (MaxRandom + 1)

-----------------------------------------------------------------------------
(* Deck and hand utilities *)

createDeck ==
    [i \in 1..(Len(Suits) * Len(Ranks)) |->
        Card(Suits[((i - 1) \div Len(Ranks)) + 1], Ranks[((i - 1) % Len(Ranks)) + 1])]

\* One outcome of the Fisher-Yates shuffle of a deck of n cards, numbered k:
\* 0 leaves the order, 1 reverses it, k >= 2 rotates it by k - 1.
ShufflePerm(k, n) ==
    [i \in 1..n |->
        IF k = 0 THEN i
        ELSE IF k = 1 THEN n + 1 - i
        ELSE ((i - 1 + (k - 1)) % n) + 1]

\* shuffleDeck: a new sequence, a permutation of the input chosen by the
\* random draws (perm is the permutation they produce)
shuffleDeck(deck, perm) == [i \in 1..Len(deck) |-> deck[perm[i]]]

getSuitValue(suit) ==
    CASE suit = "Hearts" -> 1
      [] suit = "Diamonds" -> 2
      [] suit = "Clubs" -> 3
      [] suit = "Spades" -> 4

getRankValue(rank) ==
    CASE rank = "2" -> 2 [] rank = "3" -> 3 [] rank = "4" -> 4 [] rank = "5" -> 5
      [] rank = "6" -> 6 [] rank = "7" -> 7 [] rank = "8" -> 8 [] rank = "9" -> 9
      [] rank = "10" -> 10 [] rank = "J" -> 11 [] rank = "Q" -> 12 [] rank = "K" -> 13
      [] rank = "A" -> 14

\* the comparator of sortHand
CompareCards(a, b) ==
    IF a.suit # b.suit
    THEN getSuitValue(a.suit) - getSuitValue(b.suit)
    ELSE getRankValue(a.rank) - getRankValue(b.rank)

RECURSIVE InsertCard(_, _)
InsertCard(c, sorted) ==
    IF sorted = <<>> THEN <<c>>
    ELSE IF CompareCards(c, Head(sorted)) < 0 THEN <<c>> \o sorted
    ELSE <<Head(sorted)>> \o InsertCard(c, Tail(sorted))

RECURSIVE sortHand(_)
sortHand(hand) ==
    IF hand = <<>> THEN <<>>
    ELSE InsertCard(Last(hand), sortHand(Front(hand)))

\* isBlackJack that forgets the Jack of Clubs
isBlackJackSpadesOnly(card) == card.rank = "J" /\ card.suit = "Spades"

isBlackJack(card) ==
    card.rank = "J" /\ (card.suit = "Spades" \/ card.suit = "Clubs")

\* isTwo taking the Three for an attack card as well
isTwoOrThree(card) == card.rank \in {"2", "3"}

isTwo(card) == card.rank = "2"

-----------------------------------------------------------------------------
(* Turn management *)

\* advanceTurn without the "+ numPlayers" normalisation
advanceTurnNoWrap(state, steps) ==
    LET numPlayers == Len(state.players)
        nextIndex == state.currentPlayerIndex + (state.direction * steps)
    IN [state EXCEPT !.currentPlayerIndex = JsRem(nextIndex, numPlayers)]

\* advanceTurn moving one step whatever the number of steps asked for
advanceTurnOneStep(state, steps) ==
    LET numPlayers == Len(state.players)
        nextIndex == state.currentPlayerIndex + state.direction
    IN [state EXCEPT !.currentPlayerIndex =
            JsRem(JsRem(nextIndex, numPlayers) + numPlayers, numPlayers)]

\* advanceTurn counting forwards whatever the direction
advanceTurnForward(state, steps) ==
    LET numPlayers == Len(state.players)
        nextIndex == state.currentPlayerIndex + steps
    IN [state EXCEPT !.currentPlayerIndex =
            JsRem(JsRem(nextIndex, numPlayers) + numPlayers, numPlayers)]

advanceTurn(state, steps) ==
    LET numPlayers == Len(state.players)
        nextIndex == state.currentPlayerIndex + (state.direction * steps)
    IN [state EXCEPT !.currentPlayerIndex =
            JsRem(JsRem(nextIndex, numPlayers) + numPlayers, numPlayers)]

\* the player at currentPlayerIndex (players is 0-based in the source)
CurrentPlayer(state) == state.players[state.currentPlayerIndex + 1]

-----------------------------------------------------------------------------
(* Game actions *)

handSize == 7

\* `bot-${i}` and `player-${i}`
PlayerId(i, isBot) ==
    IF isBot THEN <<"bot-0", "bot-1", "bot-2", "bot-3">>[i + 1]
    ELSE <<"player-0", "player-1", "player-2", "player-3">>[i + 1]

\* createNewGame that lets a game of one player through
createNewGameAtLeastOne(numPlayersArg, difficulty, gameMode, shuffled) ==
    LET numPlayers == IF numPlayersArg < 1 THEN 1
                      ELSE IF numPlayersArg > 4 THEN 4 ELSE numPlayersArg
        isBotAt(i) == IF gameMode = "vs_bot" THEN i > 0 ELSE FALSE
        dealt(i) == SubSeq(shuffled, i * handSize + 1, (i + 1) * handSize)
        players == [k \in 1..numPlayers |->
                      LET i == k - 1 IN
                      [id |-> PlayerId(i, isBotAt(i)),
                       isBot |-> isBotAt(i),
                       hand |-> IF i = 0 \/ gameMode = "local_multiplayer"
                                THEN sortHand(dealt(i)) ELSE dealt(i)]]
        rest == SubSeq(shuffled, numPlayers * handSize + 1, Len(shuffled))
    IN [deck |-> Front(rest),
        discardPile |-> <<Last(rest)>>,
        players |-> players,
        currentPlayerIndex |-> 0,
        direction |-> 1,
        winnerId |-> Null,
        pendingPickup |-> 0,
        lastAction |-> "Game Started",
        difficulty |-> difficulty,
        gameMode |-> gameMode,
        pendingSuitChoice |-> FALSE,
        chosenSuit |-> Null,
        peekingCard |-> <<>>,
        peekingPlayerId |-> Null,
        pendingSwap |-> FALSE,
        previousState |-> <<>>,
        canUndo |-> FALSE]

\* createNewGame; shuffled is the deck after shuffleDeck(createDeck())
createNewGame(numPlayersArg, difficulty, gameMode, shuffled) ==
    LET numPlayers == IF numPlayersArg < 2 THEN 2
                      ELSE IF numPlayersArg > 4 THEN 4 ELSE numPlayersArg
        isBotAt(i) == IF gameMode = "vs_bot" THEN i > 0 ELSE FALSE
        dealt(i) == SubSeq(shuffled, i * handSize + 1, (i + 1) * handSize)
        players == [k \in 1..numPlayers |->
                      LET i == k - 1 IN
                      [id |-> PlayerId(i, isBotAt(i)),
                       isBot |-> isBotAt(i),
                       hand |-> IF i = 0 \/ gameMode = "local_multiplayer"
                                THEN sortHand(dealt(i)) ELSE dealt(i)]]
        rest == SubSeq(shuffled, numPlayers * handSize + 1, Len(shuffled))
    IN [deck |-> Front(rest),
        discardPile |-> <<Last(rest)>>,
        players |-> players,
        currentPlayerIndex |-> 0,
        direction |-> 1,
        winnerId |-> Null,
        pendingPickup |-> 0,
        lastAction |-> "Game Started",
        difficulty |-> difficulty,
        gameMode |-> gameMode,
        pendingSuitChoice |-> FALSE,
        chosenSuit |-> Null,
        peekingCard |-> <<>>,
        peekingPlayerId |-> Null,
        pendingSwap |-> FALSE,
        previousState |-> <<>>,
        canUndo |-> FALSE]

\* isValidMove that lets a suit match defend against an attack
isValidMoveSuitDefends(card, topDiscard, pendingPickup) ==
    card.suit = topDiscard.suit \/ card.rank = topDiscard.rank

isValidMove(card, topDiscard, pendingPickup) ==
    IF pendingPickup > 0
    THEN card.rank = topDiscard.rank
    ELSE card.suit = topDiscard.suit \/ card.rank = topDiscard.rank

\* hand.findIndex(c => c.id === cardId), 1-based; 0 when there is none
FindCardIndex(hand, cardId) ==
    IF \E i \in 1..Len(hand) : hand[i].id = cardId
    THEN CHOOSE i \in 1..Len(hand) :
            hand[i].id = cardId /\ \A j \in 1..(i - 1) : hand[j].id # cardId
    ELSE 0

\* players.find(p => p.id === id), 1-based; 0 when there is none
FindPlayerById(players, id) ==
    IF \E i \in 1..Len(players) : players[i].id = id
    THEN CHOOSE i \in 1..Len(players) :
            players[i].id = id /\ \A j \in 1..(i - 1) : players[j].id # id
    ELSE 0

\* players.find that finds no other player
FindOtherPlayerNone(players, id) == 0

\* players.find(p => p.id !== id), 1-based; 0 when there is none
FindOtherPlayer(players, id) ==
    IF \E i \in 1..Len(players) : players[i].id # id
    THEN CHOOSE i \in 1..Len(players) :
            players[i].id # id /\ \A j \in 1..(i - 1) : players[j].id = id
    ELSE 0

\* players.filter(p => p.id !== id), as 1-based indices in order, from index i on
RECURSIVE OthersFrom(_, _, _)
OthersFrom(players, id, i) ==
    IF i > Len(players) THEN <<>>
    ELSE (IF players[i].id # id THEN <<i>> ELSE <<>>) \o OthersFrom(players, id, i + 1)

\* the filter letting every player through, the one asking included
OpponentsFromAll(players, id, i) == [k \in 1..Len(players) |-> k]

\* players.filter(p => p.id !== id && p.hand.length > 0), likewise
RECURSIVE OpponentsFrom(_, _, _)
OpponentsFrom(players, id, i) ==
    IF i > Len(players) THEN <<>>
    ELSE (IF players[i].id # id /\ Len(players[i].hand) > 0 THEN <<i>> ELSE <<>>)
         \o OpponentsFrom(players, id, i + 1)

\* playCard; rOpp and rCard are the two Math.random() draws of the Seven
\* the special-card effects of playCard and its turn advance, for a card that
\* did not empty the hand of player me
CardEffect(state, card, me, rOpp, rCard) ==
    LET player == state.players[me]
        hand == player.hand
        numPlayers == Len(state.players)
        done(st, actionText, stepsToAdvance) ==
            LET st2 == [st EXCEPT !.lastAction = actionText]
            IN IF stepsToAdvance > 0 THEN advanceTurn(st2, stepsToAdvance) ELSE st2
    IN
    IF isTwo(card)
    THEN done([state EXCEPT !.pendingPickup = @ + 2], "+2 Cards Attack", 1)
    ELSE IF isBlackJack(card)
    THEN done([state EXCEPT !.pendingPickup = @ + 5], "+5 Cards MEGA Attack", 1)
    ELSE IF card.rank = "8"
    THEN done(state, "SKIP", IF numPlayers = 2 THEN 0 ELSE 2)
    ELSE IF card.rank = "A"
    THEN IF numPlayers = 2
         THEN done(state, "Reverse", 0)
         ELSE done([state EXCEPT !.direction = @ * (-1)], "Reverse", 1)
    ELSE IF card.rank = "Q"
    THEN done([state EXCEPT !.pendingSuitChoice = TRUE], "WILD", 0)
    ELSE IF card.rank = "K"
    THEN IF numPlayers > 2
         THEN done([state EXCEPT !.pendingSwap = TRUE], "SWAP choose", 0)
         ELSE LET other == FindOtherPlayer(state.players, player.id)
              IN IF other # 0
                 THEN done([state EXCEPT !.players[me].hand = state.players[other].hand,
                                         !.players[other].hand = hand],
                           "SWAP exchanged", 1)
                 ELSE done(state, "played", 1)
    ELSE IF card.rank = "7"
    THEN LET opponents == OpponentsFrom(state.players, player.id, 1)
         IN IF Len(opponents) > 0
            THEN LET randomOpponent ==
                         state.players[opponents[RandomIndex(rOpp, Len(opponents)) + 1]]
                     randomCardIndex == RandomIndex(rCard, Len(randomOpponent.hand))
                 IN done([state EXCEPT !.peekingCard = <<randomOpponent.hand[randomCardIndex + 1]>>,
                                       !.peekingPlayerId = randomOpponent.id],
                         "PEEK", 1)
            ELSE done(state, "played", 1)
    ELSE done(state, "played", 1)

\* playCard whose Ace reverses the direction with two players as well
playCardAceFlips(currentState, cardId, rOpp, rCard) ==
    IF currentState.winnerId # Null THEN currentState
    ELSE
    LET me == currentState.currentPlayerIndex + 1
        player == currentState.players[me]
        cardIndex == FindCardIndex(player.hand, cardId)
    IN
    IF cardIndex = 0 THEN currentState
    ELSE
    LET card == player.hand[cardIndex]
        hand == RemoveAt(player.hand, cardIndex)
        state == [currentState EXCEPT !.players[me].hand = hand,
                                      !.discardPile = Append(@, card)]
        effect == CardEffect(state, card, me, rOpp, rCard)
    IN
    IF Len(hand) = 0
    THEN [state EXCEPT !.winnerId = player.id, !.lastAction = "wins"]
    ELSE IF card.rank = "A"
    THEN [effect EXCEPT !.direction = currentState.direction * (-1)]
    ELSE effect

\* playCard applying the card's effect before it looks for the empty hand
playCardEffectBeforeWin(currentState, cardId, rOpp, rCard) ==
    IF currentState.winnerId # Null THEN currentState
    ELSE
    LET me == currentState.currentPlayerIndex + 1
        player == currentState.players[me]
        cardIndex == FindCardIndex(player.hand, cardId)
    IN
    IF cardIndex = 0 THEN currentState
    ELSE
    LET card == player.hand[cardIndex]
        hand == RemoveAt(player.hand, cardIndex)
        state == [currentState EXCEPT !.players[me].hand = hand,
                                      !.discardPile = Append(@, card)]
        effect == CardEffect(state, card, me, rOpp, rCard)
    IN
    IF Len(hand) = 0
    THEN [effect EXCEPT !.winnerId = player.id, !.lastAction = "wins"]
    ELSE effect

playCard(currentState, cardId, rOpp, rCard) ==
    IF currentState.winnerId # Null THEN currentState
    ELSE
    LET me == currentState.currentPlayerIndex + 1
        player == currentState.players[me]
        cardIndex == FindCardIndex(player.hand, cardId)
    IN
    IF cardIndex = 0 THEN currentState
    ELSE
    LET card == player.hand[cardIndex]
        hand == RemoveAt(player.hand, cardIndex)
        state == [currentState EXCEPT !.players[me].hand = hand,
                                      !.discardPile = Append(@, card)]
    IN
    IF Len(hand) = 0
    THEN [state EXCEPT !.winnerId = player.id, !.lastAction = "wins"]
    ELSE CardEffect(state, card, me, rOpp, rCard)

cloneState(state) == state

\* the drawCard loop recycling the whole discard pile, its top card included
RECURSIVE DrawLoopWholePile(_, _, _, _)
DrawLoopWholePile(state, i, countToDraw, shuffle) ==
    IF i >= countToDraw THEN state
    ELSE
    LET me == state.currentPlayerIndex + 1
        refilled ==
            IF Len(state.deck) = 0 /\ Len(state.discardPile) > 1
            THEN LET topCard == Last(state.discardPile)
                     newDeck == state.discardPile
                 IN [state EXCEPT !.discardPile = <<topCard>>,
                                  !.deck = shuffleDeck(newDeck, ShufflePerm(shuffle, Len(newDeck)))]
            ELSE state
    IN
    IF Len(refilled.deck) = 0 THEN state
    ELSE DrawLoopWholePile([refilled EXCEPT !.deck = Front(@),
                                            !.players[me].hand = Append(@, Last(refilled.deck))],
                           i + 1, countToDraw, shuffle)

\* the loop of drawCard recycling the top card with the rest of the pile
RECURSIVE DrawLoopEmptiesPile(_, _, _, _)
DrawLoopEmptiesPile(state, i, countToDraw, shuffle) ==
    IF i >= countToDraw THEN state
    ELSE
    LET me == state.currentPlayerIndex + 1
        refilled ==
            IF Len(state.deck) = 0 /\ Len(state.discardPile) > 1
            THEN LET newDeck == state.discardPile
                 IN [state EXCEPT !.discardPile = <<>>,
                                  !.deck = shuffleDeck(newDeck, ShufflePerm(shuffle, Len(newDeck)))]
            ELSE state
    IN
    IF Len(refilled.deck) = 0 THEN state
    ELSE DrawLoopEmptiesPile([refilled EXCEPT !.deck = Front(@),
                                              !.players[me].hand = Append(@, Last(refilled.deck))],
                             i + 1, countToDraw, shuffle)

\* the loop of drawCard keeping the bottom card of the pile, not the top one
RECURSIVE DrawLoopKeepsBottom(_, _, _, _)
DrawLoopKeepsBottom(state, i, countToDraw, shuffle) ==
    IF i >= countToDraw THEN state
    ELSE
    LET me == state.currentPlayerIndex + 1
        refilled ==
            IF Len(state.deck) = 0 /\ Len(state.discardPile) > 1
            THEN LET topCard == Head(state.discardPile)
                     newDeck == Tail(state.discardPile)
                 IN [state EXCEPT !.discardPile = <<topCard>>,
                                  !.deck = shuffleDeck(newDeck, ShufflePerm(shuffle, Len(newDeck)))]
            ELSE state
    IN
    IF Len(refilled.deck) = 0 THEN state
    ELSE DrawLoopKeepsBottom([refilled EXCEPT !.deck = Front(@),
                                              !.players[me].hand = Append(@, Last(refilled.deck))],
                             i + 1, countToDraw, shuffle)

\* the loop body of drawCard, run for iterations i..countToDraw-1
RECURSIVE DrawLoop(_, _, _, _)
DrawLoop(state, i, countToDraw, shuffle) ==
    IF i >= countToDraw THEN state
    ELSE
    LET me == state.currentPlayerIndex + 1
        refilled ==
            IF Len(state.deck) = 0 /\ Len(state.discardPile) > 1
            THEN LET topCard == Last(state.discardPile)
                     newDeck == Front(state.discardPile)
                 IN [state EXCEPT !.discardPile = <<topCard>>,
                                  !.deck = shuffleDeck(newDeck, ShufflePerm(shuffle, Len(newDeck)))]
            ELSE state
    IN
    IF Len(refilled.deck) = 0 THEN state    \* break: nothing left to draw
    ELSE DrawLoop([refilled EXCEPT !.deck = Front(@),
                                   !.players[me].hand = Append(@, Last(refilled.deck))],
                  i + 1, countToDraw, shuffle)

\* drawCard without its winnerId guard
drawCardAfterWin(currentState, shuffle) ==
    LET me == currentState.currentPlayerIndex + 1
        countToDraw == IF currentState.pendingPickup > 0
                       THEN currentState.pendingPickup ELSE 1
        drawn == DrawLoop(cloneState(currentState), 0, countToDraw, shuffle)
        sorted == IF ~drawn.players[me].isBot
                  THEN [drawn EXCEPT !.players[me].hand = sortHand(@)]
                  ELSE drawn
    IN advanceTurn([sorted EXCEPT !.pendingPickup = 0, !.lastAction = "drew a card"], 1)

\* drawCard; shuffle numbers the outcome of shuffleDeck when the pile is recycled
\* drawCard that gives up, drawing nothing, when the deck cannot cover the pickup
drawCardAllOrNothing(currentState, shuffle) ==
    IF currentState.winnerId # Null THEN currentState
    ELSE
    LET me == currentState.currentPlayerIndex + 1
        countToDraw == IF currentState.pendingPickup > 0
                       THEN currentState.pendingPickup ELSE 1
        drawn == IF countToDraw > Len(currentState.deck) + Len(currentState.discardPile) - 1
                 THEN cloneState(currentState)
                 ELSE DrawLoop(cloneState(currentState), 0, countToDraw, shuffle)
        sorted == IF ~drawn.players[me].isBot
                  THEN [drawn EXCEPT !.players[me].hand = sortHand(@)]
                  ELSE drawn
    IN advanceTurn([sorted EXCEPT !.pendingPickup = 0], 1)

drawCard(currentState, shuffle) ==
    IF currentState.winnerId # Null THEN currentState
    ELSE
    LET me == currentState.currentPlayerIndex + 1
        countToDraw == IF currentState.pendingPickup > 0
                       THEN currentState.pendingPickup ELSE 1
        drawn == DrawLoop(cloneState(currentState), 0, countToDraw, shuffle)
        sorted == IF ~drawn.players[me].isBot
                  THEN [drawn EXCEPT !.players[me].hand = sortHand(@)]
                  ELSE drawn
        status == [sorted EXCEPT !.lastAction =
                      IF currentState.pendingPickup > 0 THEN "had to pick up" ELSE "drew a card"]
    IN advanceTurn([status EXCEPT !.pendingPickup = 0], 1)

-----------------------------------------------------------------------------
(* Power-up card actions *)

\* chooseSuit that records the suit and leaves the turn with the chooser
chooseSuitKeepsTurn(currentState, suit) ==
    IF ~currentState.pendingSuitChoice THEN currentState
    ELSE [cloneState(currentState) EXCEPT !.chosenSuit = suit,
                                          !.pendingSuitChoice = FALSE,
                                          !.lastAction = "Changed suit"]

chooseSuit(currentState, suit) ==
    IF ~currentState.pendingSuitChoice THEN currentState
    ELSE advanceTurn([cloneState(currentState) EXCEPT !.chosenSuit = suit,
                                                      !.pendingSuitChoice = FALSE,
                                                      !.lastAction = "Changed suit"], 1)

\* swapWith that gives up the swap and passes the turn on when the target is
\* no player
swapWithPassesOn(currentState, targetPlayerId) ==
    IF ~currentState.pendingSwap THEN currentState
    ELSE
    LET state == cloneState(currentState)
        me == state.currentPlayerIndex + 1
        target == FindPlayerById(state.players, targetPlayerId)
    IN
    IF target = 0 THEN advanceTurn([state EXCEPT !.pendingSwap = FALSE], 1)
    ELSE
    LET tempHand == state.players[me].hand
        swapped1 == [state EXCEPT !.players[me].hand = state.players[target].hand]
        swapped2 == [swapped1 EXCEPT !.players[target].hand = tempHand]
    IN advanceTurn([swapped2 EXCEPT !.pendingSwap = FALSE, !.lastAction = "swapped"], 1)

\* swapWith that hands the target the hand it has just given away
swapWithCopies(currentState, targetPlayerId) ==
    IF ~currentState.pendingSwap THEN currentState
    ELSE
    LET state == cloneState(currentState)
        me == state.currentPlayerIndex + 1
        target == FindPlayerById(state.players, targetPlayerId)
    IN
    IF target = 0 THEN currentState
    ELSE
    LET swapped1 == [state EXCEPT !.players[me].hand = state.players[target].hand]
        swapped2 == [swapped1 EXCEPT !.players[target].hand = swapped1.players[me].hand]
    IN advanceTurn([swapped2 EXCEPT !.pendingSwap = FALSE, !.lastAction = "swapped"], 1)

swapWith(currentState, targetPlayerId) ==
    IF ~currentState.pendingSwap THEN currentState
    ELSE
    LET state == cloneState(currentState)
        me == state.currentPlayerIndex + 1
        target == FindPlayerById(state.players, targetPlayerId)
    IN
    IF target = 0 THEN currentState
    ELSE
    LET tempHand == state.players[me].hand
        \* currentPlayer.hand is assigned first, targetPlayer.hand second
        swapped1 == [state EXCEPT !.players[me].hand = state.players[target].hand]
        swapped2 == [swapped1 EXCEPT !.players[target].hand = tempHand]
    IN advanceTurn([swapped2 EXCEPT !.pendingSwap = FALSE, !.lastAction = "swapped"], 1)

\* clearPeek that drops the undo snapshot
clearPeekForgets(currentState) ==
    [cloneState(currentState) EXCEPT !.peekingCard = <<>>, !.peekingPlayerId = Null,
                                     !.previousState = <<>>, !.canUndo = FALSE]

\* clearPeek that ends the attack as well
clearPeekEndsAttack(currentState) ==
    [cloneState(currentState) EXCEPT !.peekingCard = <<>>, !.peekingPlayerId = Null,
                                     !.pendingPickup = 0]

clearPeek(currentState) ==
    [cloneState(currentState) EXCEPT !.peekingCard = <<>>, !.peekingPlayerId = Null]

\* the suits of a hand in the order they first occur (the key order of suitCounts)
RECURSIVE SuitsSeen(_)
SuitsSeen(hand) ==
    IF hand = <<>> THEN <<>>
    ELSE LET before == SuitsSeen(Front(hand))
         IN IF Last(hand).suit \in Range(before) THEN before
            ELSE Append(before, Last(hand).suit)

SuitCount(hand, suit) == Cardinality({i \in 1..Len(hand) : hand[i].suit = suit})

\* the loop of botChooseSuit over Object.entries(suitCounts), from entry i on
RECURSIVE BestSuitFrom(_, _, _, _, _)
BestSuitFrom(hand, entries, i, bestSuit, maxCount) ==
    IF i > Len(entries) THEN bestSuit
    ELSE LET count == SuitCount(hand, entries[i])
         IN IF count > maxCount
            THEN BestSuitFrom(hand, entries, i + 1, entries[i], count)
            ELSE BestSuitFrom(hand, entries, i + 1, bestSuit, maxCount)

botChooseSuit(currentState) ==
    LET bot == CurrentPlayer(currentState)
    IN chooseSuit(currentState, BestSuitFrom(bot.hand, SuitsSeen(bot.hand), 1, "Hearts", 0))

\* the reduce of botChooseSwap keeping the last of the smallest hands
MinHandFromLast(players, others, i, min) ==
    LET Smallest(k) == \A j \in 1..Len(others) :
                          Len(players[others[k]].hand) <= Len(players[others[j]].hand)
    IN others[CHOOSE k \in 1..Len(others) :
                 Smallest(k) /\ \A j \in (k + 1)..Len(others) : ~Smallest(j)]

\* others.reduce((min, p) => p.hand.length < min.hand.length ? p : min, others[0])
RECURSIVE MinHandFrom(_, _, _, _)
MinHandFrom(players, others, i, min) ==
    IF i > Len(others) THEN min
    ELSE MinHandFrom(players, others, i + 1,
                     IF Len(players[others[i]].hand) < Len(players[min].hand)
                     THEN others[i] ELSE min)

botChooseSwap(currentState) ==
    LET bot == CurrentPlayer(currentState)
        others == OthersFrom(currentState.players, bot.id, 1)
        target == MinHandFrom(currentState.players, others, 1, others[1])
    IN swapWith(currentState, currentState.players[target].id)

-----------------------------------------------------------------------------
(* Bot decision logic *)

isAttack(card) == isTwo(card) \/ isBlackJack(card)

\* the medium comparator preferring the suit the bot holds least of
CompareMediumFewest(a, b, hand) ==
    IF isAttack(a) /\ ~isAttack(b) THEN -1
    ELSE IF ~isAttack(a) /\ isAttack(b) THEN 1
    ELSE SuitCount(hand, a.suit) - SuitCount(hand, b.suit)

\* the comparator of validMoves.sort in medium mode: attacks first, then the
\* suit the bot holds most of
CompareMedium(a, b, hand) ==
    IF isAttack(a) /\ ~isAttack(b) THEN -1
    ELSE IF ~isAttack(a) /\ isAttack(b) THEN 1
    ELSE SuitCount(hand, b.suit) - SuitCount(hand, a.suit)

\* the comparator of validMoves.sort in hard mode
CompareHard(a, b, hand, shouldAttack) ==
    IF shouldAttack /\ isAttack(a) /\ ~isAttack(b) THEN -1
    ELSE IF shouldAttack /\ ~isAttack(a) /\ isAttack(b) THEN 1
    ELSE IF ~shouldAttack /\ isAttack(a) /\ ~isAttack(b) THEN 1
    ELSE IF ~shouldAttack /\ ~isAttack(a) /\ isAttack(b) THEN -1
    ELSE SuitCount(hand, a.suit) - SuitCount(hand, b.suit)

CompareMoves(a, b, hand, difficulty, shouldAttack) ==
    IF difficulty = "hard" THEN CompareHard(a, b, hand, shouldAttack)
    ELSE CompareMedium(a, b, hand)

\* validMoves[0] after the stable sort: the first move no other move precedes
SortedFirst(validMoves, hand, difficulty, shouldAttack) ==
    LET Least(i) == \A j \in 1..Len(validMoves) :
                        CompareMoves(validMoves[i], validMoves[j], hand,
                                     difficulty, shouldAttack) <= 0
        first == CHOOSE i \in 1..Len(validMoves) :
                    /\ Least(i)
                    /\ \A j \in 1..(i - 1) : ~Least(j)
    IN validMoves[first]

\* state.players.find(p => !p.isBot)?.hand.length || 7
HumanHandSize(players) ==
    LET humans == {i \in 1..Len(players) : ~players[i].isBot}
        first == CHOOSE i \in humans : \A j \in humans : i <= j
    IN IF humans = {} \/ Len(players[first].hand) = 0 THEN 7
       ELSE Len(players[first].hand)

\* validMoves that lets the suit chosen for a Queen stand in for the Queen's
ValidMovesChosenSuit(state) ==
    LET topCard == Last(state.discardPile)
        wild == topCard.rank = "Q" /\ state.chosenSuit # Null
        Valid(card) ==
            IF wild /\ state.pendingPickup = 0
            THEN card.suit = state.chosenSuit \/ card.rank = topCard.rank
            ELSE isValidMove(card, topCard, state.pendingPickup)
    IN SelectSeq(CurrentPlayer(state).hand, Valid)

\* the legal moves of the current player:
\* hand.filter(card => isValidMove(card, topCard, pending))
ValidMoves(state) ==
    LET topCard == Last(state.discardPile)
        Valid(card) == isValidMove(card, topCard, state.pendingPickup)
    IN SelectSeq(CurrentPlayer(state).hand, Valid)

\* getBotDecision whose easy bot may draw under an attack as well
getBotDecisionEasyDodges(state, rDraw, rIndex) ==
    LET bot == CurrentPlayer(state)
        validMoves == ValidMoves(state)
    IN IF Len(validMoves) = 0 THEN [action |-> "draw", cardId |-> UnknownCardId]
       ELSE IF state.difficulty = "easy"
       THEN IF 10 * rDraw < 3 * (MaxRandom + 1)
            THEN [action |-> "draw", cardId |-> UnknownCardId]
            ELSE [action |-> "play",
                  cardId |-> validMoves[RandomIndex(rIndex, Len(validMoves)) + 1].id]
       ELSE [action |-> "play",
             cardId |-> SortedFirst(validMoves, bot.hand, state.difficulty,
                                    HumanHandSize(state.players) <= 3).id]

\* rDraw and rIndex stand for the two Math.random() draws of easy mode
getBotDecision(state, rDraw, rIndex) ==
    LET bot == CurrentPlayer(state)
        pending == state.pendingPickup
        validMoves == ValidMoves(state)
    IN IF Len(validMoves) = 0 THEN [action |-> "draw", cardId |-> UnknownCardId]
       ELSE IF state.difficulty = "easy"
       THEN IF pending = 0 /\ 10 * rDraw < 3 * (MaxRandom + 1)
            THEN [action |-> "draw", cardId |-> UnknownCardId]
            ELSE [action |-> "play",
                  cardId |-> validMoves[RandomIndex(rIndex, Len(validMoves)) + 1].id]
       ELSE [action |-> "play",
             cardId |-> SortedFirst(validMoves, bot.hand, state.difficulty,
                                    HumanHandSize(state.players) <= 3).id]

-----------------------------------------------------------------------------
(* Undo *)

\* saveStateForUndo keeping the snapshot's own undo fields
saveStateForUndoChained(currentState) ==
    [cloneState(currentState) EXCEPT
        !.previousState = <<cloneState(currentState)>>,
        !.canUndo = TRUE]

saveStateForUndo(currentState) ==
    [cloneState(currentState) EXCEPT
        !.previousState = <<[cloneState(currentState) EXCEPT !.previousState = <<>>,
                                                             !.canUndo = FALSE]>>,
        !.canUndo = TRUE]

\* undoLastMove leaving canUndo set on the restored state
undoLastMoveStillUndoable(currentState) ==
    IF ~currentState.canUndo \/ currentState.previousState = <<>> THEN <<>>
    ELSE <<[cloneState(currentState.previousState[1]) EXCEPT !.canUndo = TRUE,
                                                             !.previousState = <<>>,
                                                             !.lastAction = "Move undone"]>>

\* undoLastMove handing back the current state instead of the snapshot
undoLastMoveKeepsCurrent(currentState) ==
    IF ~currentState.canUndo \/ currentState.previousState = <<>> THEN <<>>
    ELSE <<[cloneState(currentState) EXCEPT !.canUndo = FALSE,
                                            !.previousState = <<>>,
                                            !.lastAction = "Move undone"]>>

\* the state undoLastMove returns; <<>> stands for null
undoLastMove(currentState) ==
    IF ~currentState.canUndo \/ currentState.previousState = <<>> THEN <<>>
    ELSE <<[cloneState(currentState.previousState[1]) EXCEPT !.canUndo = FALSE,
                                                             !.previousState = <<>>,
                                                             !.lastAction = "Move undone"]>>

-----------------------------------------------------------------------------
(* The caller: scenarios *)

\* a deck order shuffleDeck can return: front is dealt first (7 cards a
\* player, player 0 first), back ends the deck (its last card is flipped as
\* the start card), the other cards lie between in createDeck order
Arrange(front, back) ==
    LET Between(c) == c \notin Range(front) /\ c \notin Range(back)
    IN front \o SelectSeq(createDeck, Between) \o back

Play(suit, rank) == [op |-> "playCard", arg |-> <<suit, rank>>]
Draw == [op |-> "drawCard", arg |-> 0]
Save == [op |-> "saveStateForUndo", arg |-> 0]

\* player 0 holds one card of every special kind
PowerHand ==
    <<Card("Hearts", "Q"), Card("Hearts", "K"), Card("Hearts", "A"), Card("Hearts", "8"),
      Card("Hearts", "7"), Card("Hearts", "2"), Card("Spades", "J")>>

\* player 0 holds Kings and Queens, which keep the turn with three players
CourtHand ==
    <<Card("Hearts", "K"), Card("Hearts", "Q"), Card("Diamonds", "K"), Card("Diamonds", "Q"),
      Card("Clubs", "K"), Card("Clubs", "Q"), Card("Hearts", "5")>>

CourtScript ==
    <<Play("Hearts", "K"), Play("Hearts", "Q"), Play("Diamonds", "K"),
      Play("Diamonds", "Q"), Play("Clubs", "K"), Play("Clubs", "Q")>>

\* player 0 holds Eights and Aces, which keep the turn with two players
SkipHand ==
    <<Card("Hearts", "8"), Card("Hearts", "A"), Card("Diamonds", "8"), Card("Diamonds", "A"),
      Card("Clubs", "8"), Card("Clubs", "A"), Card("Hearts", "5")>>

SkipScript ==
    <<Play("Hearts", "8"), Play("Hearts", "A"), Play("Diamonds", "8"),
      Play("Diamonds", "A"), Play("Clubs", "8"), Play("Clubs", "A")>>

\* four players hold the attack cards: 2, 2, 2, 2, J, J stack to 18
AttackHands ==
    <<Card("Hearts", "2"), Card("Spades", "J"), Card("Hearts", "3"), Card("Hearts", "4"),
      Card("Hearts", "5"), Card("Hearts", "6"), Card("Hearts", "9"),
      Card("Diamonds", "2"), Card("Clubs", "J"), Card("Diamonds", "3"), Card("Diamonds", "4"),
      Card("Diamonds", "5"), Card("Diamonds", "6"), Card("Diamonds", "9"),
      Card("Clubs", "2"), Card("Clubs", "3"), Card("Clubs", "4"), Card("Clubs", "5"),
      Card("Clubs", "6"), Card("Clubs", "9"), Card("Clubs", "10"),
      Card("Spades", "2"), Card("Spades", "3"), Card("Spades", "4"), Card("Spades", "5"),
      Card("Spades", "6"), Card("Spades", "9"), Card("Spades", "10")>>

\* the attack is stacked to 18 and picked up, then the deck is drawn empty
DrainScript ==
    <<Play("Hearts", "2"), Play("Diamonds", "2"), Play("Clubs", "2"), Play("Spades", "2"),
      Play("Spades", "J"), Play("Clubs", "J"),
      Draw, Draw, Draw, Draw, Draw, Draw>>

\* then the pile is recycled and the new deck is drawn empty as well
ExhaustScript == DrainScript \o <<Draw, Draw, Draw, Draw, Draw, Draw>>

\* the four Twos are picked up and the deck is drawn down to 4 cards, then
\* the Jack of Spades asks the next player for 5
ShortDeckScript ==
    <<Play("Hearts", "2"), Play("Diamonds", "2"), Play("Clubs", "2"), Play("Spades", "2"),
      Draw, Draw, Draw, Draw, Draw, Draw, Draw, Draw, Draw, Draw, Draw, Draw,
      Play("Spades", "J")>>

\* player 0 plays down to the 2 of Spades and is attacked by player 1, whose
\* state was saved before its play
LastTwoHands ==
    <<Card("Diamonds", "8"), Card("Diamonds", "A"), Card("Clubs", "A"), Card("Clubs", "8"),
      Card("Hearts", "8"), Card("Hearts", "2"), Card("Spades", "2"),
      Card("Diamonds", "2"), Card("Clubs", "J"), Card("Clubs", "4"), Card("Clubs", "5"),
      Card("Clubs", "6"), Card("Spades", "4"), Card("Spades", "5")>>

LastTwoScript ==
    <<Play("Diamonds", "8"), Play("Diamonds", "A"), Play("Clubs", "A"), Play("Clubs", "8"),
      Play("Hearts", "8"), Play("Hearts", "2"), Save, Play("Diamonds", "2")>>

\* the first bot holds a Queen, then three Clubs, then three Diamonds
BotWildHand ==
    <<Card("Spades", "Q"), Card("Clubs", "4"), Card("Clubs", "5"), Card("Clubs", "6"),
      Card("Diamonds", "4"), Card("Diamonds", "5"), Card("Diamonds", "6")>>

\* player 0 draws and the bot plays its Queen
BotWildScript == <<Draw, Play("Spades", "Q")>>

\* of three players the second holds 8 cards and the third 6 when player 0
\* plays its King
UnevenScript ==
    <<Play("Hearts", "A"), Play("Diamonds", "3"), Draw, Play("Hearts", "K")>>

\* player 0 holds the Jack of Spades, the bot the Jacks of Hearts and Diamonds
JackHands ==
    <<Card("Spades", "J"), Card("Spades", "4"), Card("Spades", "5"), Card("Spades", "6"),
      Card("Spades", "9"), Card("Spades", "10"), Card("Hearts", "4"),
      Card("Hearts", "J"), Card("Diamonds", "J"), Card("Hearts", "3"), Card("Hearts", "5"),
      Card("Hearts", "6"), Card("Hearts", "9"), Card("Hearts", "10")>>

SpadesStart == <<Card("Spades", "3")>>

Scenario(n, mode, shuffled, calls) ==
    [numPlayers |-> n, difficulty |-> "medium", gameMode |-> mode,
     shuffled |-> shuffled, script |-> calls]

Scenarios ==
    { Scenario(2, "vs_bot", Arrange(PowerHand, <<>>), <<>>),
      Scenario(3, "vs_bot", Arrange(PowerHand, <<>>), <<>>),
      Scenario(4, "vs_bot", Arrange(PowerHand, <<>>), <<>>),
      Scenario(2, "local_multiplayer", Arrange(PowerHand, <<>>), <<>>),
      Scenario(3, "vs_bot", Arrange(PowerHand, <<>>), <<Play("Hearts", "A")>>),
      Scenario(3, "vs_bot", Arrange(CourtHand, <<>>), CourtScript),
      Scenario(2, "vs_bot", Arrange(SkipHand, <<>>), SkipScript),
      Scenario(2, "vs_bot", Arrange(SkipHand, <<>>), SkipScript \o <<Save>>),
      Scenario(2, "vs_bot", Arrange(LastTwoHands, <<Card("Diamonds", "3")>>), LastTwoScript),
      Scenario(4, "vs_bot", Arrange(AttackHands, <<>>), DrainScript),
      Scenario(4, "local_multiplayer", Arrange(AttackHands, <<>>), ExhaustScript),
      Scenario(4, "vs_bot", Arrange(AttackHands, <<>>), ShortDeckScript),
      Scenario(2, "vs_bot", Arrange(PowerHand \o BotWildHand, <<>>), BotWildScript),
      Scenario(3, "vs_bot", Arrange(PowerHand, <<>>), UnevenScript),
      Scenario(2, "vs_bot", Arrange(JackHands, SpadesStart), <<Play("Spades", "J")>>) }

-----------------------------------------------------------------------------
(* The caller: one engine call a step *)

CardIds == {c.id : c \in Cards} \cup {UnknownCardId}
PlayerIds == {PlayerId(i, b) : i \in 0..3, b \in BOOLEAN} \cup {"nobody"}
Randoms == 0..MaxRandom
\* only a Seven draws random numbers in playCard
RandomsFor(cardId) == IF cardId[2] = "7" THEN Randoms ELSE {0}
Shuffles == 0..MaxShuffle

\* the caller may make this call now: it is the script's next call, or the
\* script is over and the budget allows a free call
May(op, arg) ==
    IF script # <<>>
    THEN Head(script).op = op /\ Head(script).arg = arg
    ELSE budget > 0

Called(op) ==
    /\ script' = IF script # <<>> THEN Tail(script) ELSE script
    /\ budget' = IF script # <<>> THEN budget ELSE budget - 1
    /\ lastCall' = op
    /\ UNCHANGED <<moveCheck, view, flyingCard, winTimer, beforeHuman>>

\* the free calls after a scenario's script: one fewer once the deck is
\* exhausted or short and the four hands hold most of the cards, and after
\* the scripts that end in the state to look at
FreeCalls(sc) ==
    IF sc.script \in {ExhaustScript, ShortDeckScript, BotWildScript, UnevenScript,
                      <<Play("Spades", "J")>>}
    THEN MaxFree - 1 ELSE MaxFree

Init ==
    \E sc \in Scenarios :
        /\ gameState = createNewGame(sc.numPlayers, sc.difficulty, sc.gameMode, sc.shuffled)
        /\ script = sc.script
        /\ budget = FreeCalls(sc)
        /\ lastCall = "createNewGame"
        /\ moveCheck = <<>>
        /\ view = "playing"
        /\ flyingCard = <<>>
        /\ winTimer = FALSE
        /\ beforeHuman = <<>>

PlayCard ==
    \E cardId \in CardIds :
        \E rOpp \in RandomsFor(cardId), rCard \in RandomsFor(cardId) :
            /\ May("playCard", cardId)
            /\ script # <<>> => (rOpp = 0 /\ rCard = 0)
            /\ gameState' = playCard(gameState, cardId, rOpp, rCard)
            /\ Called("playCard")

DrawCard ==
    \E shuffle \in Shuffles :
        /\ May("drawCard", shuffle)
        /\ gameState' = drawCard(gameState, shuffle)
        /\ Called("drawCard")

ChooseSuit ==
    \E suit \in SuitSet :
        /\ May("chooseSuit", suit)
        /\ gameState' = chooseSuit(gameState, suit)
        /\ Called("chooseSuit")

SwapWith ==
    \E targetPlayerId \in PlayerIds :
        /\ May("swapWith", targetPlayerId)
        /\ gameState' = swapWith(gameState, targetPlayerId)
        /\ Called("swapWith")

BotChooseSuit ==
    /\ May("botChooseSuit", 0)
    /\ gameState' = botChooseSuit(gameState)
    /\ Called("botChooseSuit")

BotChooseSwap ==
    /\ May("botChooseSwap", 0)
    /\ gameState' = botChooseSwap(gameState)
    /\ Called("botChooseSwap")

ClearPeek ==
    /\ May("clearPeek", 0)
    /\ gameState' = clearPeek(gameState)
    /\ Called("clearPeek")

SaveStateForUndo ==
    /\ May("saveStateForUndo", 0)
    /\ gameState' = saveStateForUndo(gameState)
    /\ Called("saveStateForUndo")

\* a null result leaves the caller with the state it had
UndoLastMove ==
    /\ May("undoLastMove", 0)
    /\ gameState' = IF undoLastMove(gameState) = <<>> THEN gameState
                    ELSE undoLastMove(gameState)[1]
    /\ Called("undoLastMove")

Next ==
    \/ PlayCard
    \/ DrawCard
    \/ ChooseSuit
    \/ SwapWith
    \/ BotChooseSuit
    \/ BotChooseSwap
    \/ ClearPeek
    \/ SaveStateForUndo
    \/ UndoLastMove

Spec == Init /\ [][Next]_vars

-----------------------------------------------------------------------------
(* isValidMove on its own: one call on any two cards and a pending pickup *)

InitValid ==
    /\ gameState = createNewGame(2, "medium", "vs_bot", createDeck)
    /\ script = <<>>
    /\ budget = 0
    /\ lastCall = "createNewGame"
    /\ moveCheck = <<>>
    /\ view = "playing"
    /\ flyingCard = <<>>
    /\ winTimer = FALSE
    /\ beforeHuman = <<>>

IsValidMove ==
    /\ moveCheck = <<>>
    /\ \E card \in Cards, topDiscard \in Cards, pendingPickup \in 0..MaxPending :
        /\ moveCheck' = <<[card |-> card, topDiscard |-> topDiscard,
                           pendingPickup |-> pendingPickup,
                           result |-> isValidMove(card, topDiscard, pendingPickup)]>>
        /\ UNCHANGED <<gameState, script, budget, lastCall, view, flyingCard, winTimer, beforeHuman>>

NextValid == IsValidMove

SpecValid == InitValid /\ [][NextValid]_vars

-----------------------------------------------------------------------------
(* createNewGame on its own: any numPlayers, difficulty, mode and deck order *)

Difficulties == {"easy", "medium", "hard"}
GameModes == {"vs_bot", "local_multiplayer", "tournament"}

\* deck orders shuffleDeck can return: the permutations of ShufflePerm and the
\* deals of the scenarios
Decks ==
    {shuffleDeck(createDeck, ShufflePerm(k, Len(createDeck))) : k \in Shuffles}
        \cup {sc.shuffled : sc \in Scenarios}

CreateNewGame ==
    /\ moveCheck = <<>>
    /\ \E numPlayers \in (0 - MaxPlayersArg)..MaxPlayersArg, difficulty \in Difficulties,
          gameMode \in GameModes, shuffled \in Decks :
        /\ gameState' = createNewGame(numPlayers, difficulty, gameMode, shuffled)
        /\ moveCheck' = <<[numPlayers |-> numPlayers, shuffled |-> shuffled]>>
        /\ lastCall' = "createNewGame"
        /\ UNCHANGED <<script, budget, view, flyingCard, winTimer, beforeHuman>>

NextNew == CreateNewGame

SpecNew == InitValid /\ [][NextNew]_vars

-----------------------------------------------------------------------------
(* The driver (App): clicks, timers and animation ends of one vs_bot game *)

Click(suit, rank) == [op |-> "handleCardClick", arg |-> <<suit, rank>>]
DrawClick == [op |-> "handleDrawClick", arg |-> 0]
TransitionEnd == [op |-> "onTransitionEnd", arg |-> 0]
BotTimeout == [op |-> "botTimer", arg |-> 0]

\* the human's hand runs 8, A, A, 8, 8, A, A: every card keeps the turn with
\* two players
RunHand ==
    <<Card("Hearts", "8"), Card("Hearts", "A"), Card("Diamonds", "A"), Card("Diamonds", "8"),
      Card("Clubs", "8"), Card("Clubs", "A"), Card("Spades", "A")>>

RunScript ==
    <<Click("Hearts", "8"), TransitionEnd, Click("Hearts", "A"), TransitionEnd,
      Click("Diamonds", "A"), TransitionEnd, Click("Diamonds", "8"), TransitionEnd,
      Click("Clubs", "8"), TransitionEnd, Click("Clubs", "A"), TransitionEnd,
      Click("Spades", "A"), TransitionEnd>>

\* the first bot can play its Queen only, or its King only
BotQueenHand ==
    <<Card("Hearts", "Q"), Card("Diamonds", "4"), Card("Diamonds", "5"), Card("Diamonds", "6"),
      Card("Clubs", "4"), Card("Clubs", "5"), Card("Clubs", "6")>>

BotKingHand ==
    <<Card("Hearts", "K"), Card("Diamonds", "4"), Card("Diamonds", "5"), Card("Diamonds", "6"),
      Card("Clubs", "4"), Card("Clubs", "5"), Card("Clubs", "6")>>

\* the first bot can answer a Two with either of its Twos and follow the
\* 3 of Hearts with either of its Hearts
BotTwoHand ==
    <<Card("Diamonds", "2"), Card("Clubs", "2"), Card("Clubs", "J"), Card("Hearts", "9"),
      Card("Hearts", "10"), Card("Diamonds", "4"), Card("Diamonds", "5")>>

\* on the 3 of Diamonds the first bot can play a Two, the attack, or one of
\* three plain cards
BotMixHand ==
    <<Card("Clubs", "3"), Card("Clubs", "5"), Card("Diamonds", "9"), Card("Diamonds", "2"),
      Card("Spades", "4"), Card("Spades", "3"), Card("Spades", "6")>>

\* on the 3 of Diamonds the first bot can play its only Spade or one of four
\* cards of its two suits of three cards
BotTieHand ==
    <<Card("Spades", "3"), Card("Clubs", "3"), Card("Diamonds", "9"), Card("Diamonds", "4"),
      Card("Diamonds", "7"), Card("Clubs", "5"), Card("Clubs", "8")>>

\* the human plays down to 2 cards and passes the turn with the 9 of Diamonds
CloseRunHand ==
    <<Card("Hearts", "8"), Card("Hearts", "A"), Card("Diamonds", "A"), Card("Diamonds", "8"),
      Card("Diamonds", "9"), Card("Spades", "K"), Card("Spades", "Q")>>

CloseRunScript ==
    <<Click("Hearts", "8"), TransitionEnd, Click("Hearts", "A"), TransitionEnd,
      Click("Diamonds", "A"), TransitionEnd, Click("Diamonds", "8"), TransitionEnd,
      Click("Diamonds", "9"), TransitionEnd>>

\* on the 9 of Diamonds the first bot can play a Two, the attack, or one of
\* two plain cards
BotCloseHand ==
    <<Card("Diamonds", "4"), Card("Diamonds", "2"), Card("Clubs", "9"), Card("Clubs", "5"),
      Card("Clubs", "6"), Card("Spades", "5"), Card("Spades", "6")>>

DiamondsStart == <<Card("Diamonds", "3")>>

\* the same game against bots of another difficulty
WithDifficulty(sc, difficulty) == [sc EXCEPT !.difficulty = difficulty]

\* the human draws and the first bot plays its card
BotCourtScript == <<DrawClick, TransitionEnd, BotTimeout, TransitionEnd>>

HeartsStart == <<Card("Hearts", "3")>>

DriverScenarios ==
    { Scenario(2, "vs_bot", Arrange(PowerHand, HeartsStart), <<>>),
      Scenario(3, "vs_bot", Arrange(PowerHand, HeartsStart), <<>>),
      Scenario(2, "vs_bot", Arrange(PowerHand, HeartsStart),
               <<Click("Hearts", "A"), TransitionEnd>>),
      Scenario(2, "vs_bot", Arrange(PowerHand, HeartsStart),
               <<Click("Hearts", "A"), TransitionEnd, DrawClick, TransitionEnd>>),
      Scenario(2, "vs_bot", Arrange(PowerHand, HeartsStart),
               <<Click("Hearts", "Q"), TransitionEnd>>),
      Scenario(2, "vs_bot", Arrange(PowerHand, HeartsStart),
               <<Click("Hearts", "7"), TransitionEnd>>),
      Scenario(3, "vs_bot", Arrange(PowerHand, HeartsStart),
               <<Click("Hearts", "K"), TransitionEnd>>),
      Scenario(2, "vs_bot", Arrange(PowerHand \o BotQueenHand, HeartsStart), BotCourtScript),
      Scenario(3, "vs_bot", Arrange(PowerHand \o BotKingHand, HeartsStart), BotCourtScript),
      Scenario(2, "vs_bot", Arrange(RunHand, HeartsStart), RunScript),
      Scenario(2, "vs_bot", Arrange(PowerHand, HeartsStart),
               <<Click("Hearts", "A"), TransitionEnd, Click("Hearts", "Q")>>) }
    \cup
    { WithDifficulty(Scenario(2, "vs_bot", Arrange(PowerHand \o BotTwoHand, HeartsStart), calls),
                     difficulty) :
        calls \in {<<Click("Hearts", "2"), TransitionEnd>>, <<DrawClick, TransitionEnd>>},
        difficulty \in {"easy", "hard"} }
    \cup
    { WithDifficulty(Scenario(2, "vs_bot", Arrange(PowerHand \o botHand, DiamondsStart),
                              <<DrawClick, TransitionEnd>>),
                     difficulty) :
        botHand \in {BotMixHand, BotTieHand}, difficulty \in {"medium", "hard"} }
    \cup
    { WithDifficulty(Scenario(2, "vs_bot", Arrange(PowerHand \o BotTwoHand, HeartsStart),
                              <<Click("Hearts", "2"), TransitionEnd>>),
                     "medium"),
      WithDifficulty(Scenario(2, "vs_bot", Arrange(CloseRunHand \o BotCloseHand, HeartsStart),
                              CloseRunScript),
                     "hard") }

\* startNewGame: the state after createNewGame and setView('playing')
InitDriver ==
    \E sc \in DriverScenarios :
        /\ gameState = createNewGame(sc.numPlayers, sc.difficulty, sc.gameMode, sc.shuffled)
        /\ script = sc.script
        /\ budget = MaxFree
        /\ lastCall = "startNewGame"
        /\ moveCheck = <<>>
        /\ view = "playing"
        /\ flyingCard = <<>>
        /\ winTimer = FALSE
        /\ beforeHuman = <<>>

Handled(op) ==
    /\ script' = IF script # <<>> THEN Tail(script) ELSE script
    /\ budget' = IF script # <<>> THEN budget ELSE budget - 1
    /\ lastCall' = op
    /\ UNCHANGED moveCheck

humanPlayer == gameState.players[1]
isPlayerTurn == gameState.currentPlayerIndex = 0

\* SuitPicker or SwapPicker covers the table (fixed inset-0 overlay)
PickerShown ==
    /\ gameState.pendingSuitChoice \/ gameState.pendingSwap
    /\ ~CurrentPlayer(gameState).isBot

\* setFlyingCard of triggerPlayAnimation and triggerDrawAnimation: the
\* onComplete closure holds the gameState of the render that started it
Animation(by, action, cardId) ==
    <<[by |-> by, action |-> action, cardId |-> cardId, gameState |-> gameState]>>

\* a click on a card of the hand shown, players[0]'s; an illegal card only
\* shows an error message
HandleCardClick ==
    \E i \in 1..Len(humanPlayer.hand) :
        LET card == humanPlayer.hand[i]
            topCard == Last(gameState.discardPile)
            valid == isValidMove(card, topCard, gameState.pendingPickup)
        IN /\ May("handleCardClick", card.id)
           /\ view = "playing" /\ flyingCard = <<>> /\ ~PickerShown
           /\ ~CurrentPlayer(gameState).isBot
           /\ flyingCard' = IF valid THEN Animation("human", "play", card.id) ELSE flyingCard
           /\ UNCHANGED <<gameState, view, winTimer, beforeHuman>>
           /\ Handled("handleCardClick")

HandleDrawClick ==
    /\ May("handleDrawClick", 0)
    /\ view = "playing" /\ flyingCard = <<>> /\ ~PickerShown
    /\ ~CurrentPlayer(gameState).isBot
    /\ flyingCard' = Animation("human", "draw", UnknownCardId)
    /\ UNCHANGED <<gameState, view, winTimer, beforeHuman>>
    /\ Handled("handleDrawClick")

\* the Sort Cards button, shown on the human's turn
HandleSortClick ==
    /\ May("handleSortClick", 0)
    /\ view = "playing" /\ isPlayerTurn /\ ~PickerShown
    /\ gameState' = [gameState EXCEPT !.players[1].hand = sortHand(@)]
    /\ UNCHANGED <<view, flyingCard, winTimer, beforeHuman>>
    /\ Handled("handleSortClick")

\* the Undo button, shown on the human's turn while canUndo is set
HandleUndoClick ==
    /\ May("undoLastMove", 0)
    /\ view = "playing" /\ isPlayerTurn /\ gameState.canUndo /\ ~PickerShown
    /\ gameState' = IF undoLastMove(gameState) = <<>> THEN gameState
                    ELSE undoLastMove(gameState)[1]
    /\ UNCHANGED <<view, flyingCard, winTimer, beforeHuman>>
    /\ Handled("undoLastMove")

\* a suit button of the SuitPicker, shown while the human's choice is pending
HandleSuitChoice ==
    \E suit \in SuitSet :
        /\ May("handleSuitChoice", suit)
        /\ view = "playing"
        /\ gameState.pendingSuitChoice /\ ~CurrentPlayer(gameState).isBot
        /\ gameState' = chooseSuit(gameState, suit)
        /\ UNCHANGED <<view, flyingCard, winTimer, beforeHuman>>
        /\ Handled("handleSuitChoice")

\* a player button of the SwapPicker, which lists the other players
HandleSwapChoice ==
    \E i \in 1..Len(gameState.players) :
        /\ May("handleSwapChoice", gameState.players[i].id)
        /\ view = "playing"
        /\ gameState.pendingSwap /\ ~CurrentPlayer(gameState).isBot
        /\ gameState.players[i].id # CurrentPlayer(gameState).id
        /\ gameState' = swapWith(gameState, gameState.players[i].id)
        /\ UNCHANGED <<view, flyingCard, winTimer, beforeHuman>>
        /\ Handled("handleSwapChoice")

\* onDismiss of the PeekCard, shown while a card is peeked at
HandleDismissPeek ==
    /\ May("handleDismissPeek", 0)
    /\ view = "playing"
    /\ gameState.peekingCard # <<>>
    /\ gameState' = clearPeek(gameState)
    /\ UNCHANGED <<view, flyingCard, winTimer, beforeHuman>>
    /\ Handled("handleDismissPeek")

\* the timeout of the bot loop effect; the effect sets it anew, from the
\* latest render, whenever gameState, view or flyingCard changes
BotTimerFires ==
    /\ view = "playing" /\ gameState.winnerId = Null /\ flyingCard = <<>>
    /\ CurrentPlayer(gameState).isBot
    /\ \E rDraw \in (IF gameState.difficulty = "easy" THEN Randoms ELSE {0}),
          rIndex \in (IF gameState.difficulty = "easy" THEN Randoms ELSE {0}) :
          LET decision == getBotDecision(gameState, rDraw, rIndex)
          IN IF gameState.pendingSuitChoice
             THEN gameState' = botChooseSuit(gameState) /\ UNCHANGED flyingCard
             ELSE IF gameState.pendingSwap
             THEN gameState' = botChooseSwap(gameState) /\ UNCHANGED flyingCard
             ELSE /\ flyingCard' = Animation("bot", decision.action, decision.cardId)
                  /\ UNCHANGED gameState
    /\ UNCHANGED <<view, winTimer, beforeHuman>>

BotTimer == May("botTimer", 0) /\ BotTimerFires /\ Handled("botTimer")

\* the flying card's onTransitionEnd runs the onComplete closure on the
\* gameState it holds; checkWin sets the game-over timeout after a play
TransitionEnds ==
    /\ view = "playing" /\ flyingCard # <<>>
    /\ LET closure == flyingCard[1]
       IN \E rOpp \in RandomsFor(closure.cardId), rCard \in RandomsFor(closure.cardId),
             shuffle \in (IF closure.action = "draw" THEN Shuffles ELSE {0}) :
            LET newState ==
                    IF closure.action = "draw" THEN drawCard(closure.gameState, shuffle)
                    ELSE IF closure.by = "human"
                    THEN playCard(saveStateForUndo(closure.gameState),
                                  closure.cardId, rOpp, rCard)
                    ELSE playCard(closure.gameState, closure.cardId, rOpp, rCard)
            IN /\ script # <<>> => (rOpp = 0 /\ rCard = 0 /\ shuffle = 0)
               /\ gameState' = newState
               /\ winTimer' = (winTimer \/ (closure.action = "play"
                                             /\ newState.winnerId # Null))
               /\ beforeHuman' = IF closure.by = "human" THEN <<closure.gameState>>
                                 ELSE beforeHuman
    /\ flyingCard' = <<>>
    /\ UNCHANGED view

OnTransitionEnd == May("onTransitionEnd", 0) /\ TransitionEnds /\ Handled("onTransitionEnd")

\* the timeout set by checkWin
GameOverTimerFires ==
    /\ winTimer
    /\ view' = "gameover"
    /\ winTimer' = FALSE
    /\ UNCHANGED <<gameState, flyingCard, beforeHuman>>

GameOverTimer == May("gameOverTimer", 0) /\ GameOverTimerFires /\ Handled("gameOverTimer")

NextDriver ==
    \/ HandleCardClick
    \/ HandleDrawClick
    \/ HandleSortClick
    \/ HandleUndoClick
    \/ HandleSuitChoice
    \/ HandleSwapChoice
    \/ HandleDismissPeek
    \/ BotTimer
    \/ OnTransitionEnd
    \/ GameOverTimer

SpecDriver == InitDriver /\ [][NextDriver]_vars

-----------------------------------------------------------------------------
(* The driver with its timers and animations left to run: only the human's
   events are counted against the budget *)

\* a timeout or an animation end is due: nothing else is scripted first
Due(op) == script # <<>> => Head(script).op = op

Fired(op) ==
    /\ script' = IF script # <<>> THEN Tail(script) ELSE script
    /\ lastCall' = op
    /\ UNCHANGED <<budget, moveCheck>>

BotTimerDue == Due("botTimer") /\ BotTimerFires /\ Fired("botTimer")

OnTransitionEndDue == Due("onTransitionEnd") /\ TransitionEnds /\ Fired("onTransitionEnd")

GameOverTimerDue == Due("gameOverTimer") /\ GameOverTimerFires /\ Fired("gameOverTimer")

NextFair ==
    \/ HandleCardClick
    \/ HandleDrawClick
    \/ HandleSortClick
    \/ HandleUndoClick
    \/ HandleSuitChoice
    \/ HandleSwapChoice
    \/ HandleDismissPeek
    \/ BotTimerDue
    \/ OnTransitionEndDue
    \/ GameOverTimerDue

\* ENABLED <<BotTimerDue>>_vars: the effect has set the bot's timeout, and
\* its callback changes the state
BotTimerReady ==
    /\ Due("botTimer")
    /\ view = "playing" /\ gameState.winnerId = Null /\ flyingCard = <<>>
    /\ CurrentPlayer(gameState).isBot
    /\ \/ script # <<>>
       \/ lastCall # "botTimer"
       \/ IF gameState.pendingSuitChoice THEN botChooseSuit(gameState) # gameState
          ELSE IF gameState.pendingSwap THEN botChooseSwap(gameState) # gameState
          ELSE TRUE

\* ENABLED <<OnTransitionEndDue>>_vars: a card is flying
TransitionEndReady ==
    /\ Due("onTransitionEnd")
    /\ view = "playing" /\ flyingCard # <<>>

\* setTimeout callbacks run unless cleared, and the effect sets the bot's
\* anew after every render; a flying card's transition ends. The first two
\* conditions are WF_vars(BotTimerDue) and WF_vars(OnTransitionEndDue) written
\* out, with their ENABLED given by the state predicates above
SpecFair ==
    /\ InitDriver
    /\ [][NextFair]_vars
    /\ ([]<>~BotTimerReady) \/ ([]<><<BotTimerDue>>_vars)
    /\ ([]<>~TransitionEndReady) \/ ([]<><<OnTransitionEndDue>>_vars)
    /\ WF_vars(GameOverTimerDue)

-----------------------------------------------------------------------------
(* Properties *)

Hands(state) == [i \in 1..Len(state.players) |-> state.players[i].hand]

RECURSIVE Concat(_)
Concat(seqs) == IF seqs = <<>> THEN <<>> ELSE Head(seqs) \o Concat(Tail(seqs))

\* every card of the state: deck, discard pile and hands
AllCards(state) == state.deck \o state.discardPile \o Concat(Hands(state))

\* the fields play and draw must leave alone once the game is won
SamePlay(a, b) ==
    /\ Hands(a) = Hands(b)
    /\ a.deck = b.deck
    /\ a.discardPile = b.discardPile
    /\ a.currentPlayerIndex = b.currentPlayerIndex
    /\ a.direction = b.direction
    /\ a.pendingPickup = b.pendingPickup
    /\ a.pendingSuitChoice = b.pendingSuitChoice
    /\ a.pendingSwap = b.pendingSwap

\* C1: in every reachable state each of the 52 cards of createDeck lies
\* exactly once in the deck, the discard pile or a hand.
C1_CardConservation ==
    /\ Len(AllCards(gameState)) = 52
    /\ Range(AllCards(gameState)) = Cards

\* a draw has recycled the discard pile: the Jack of Clubs played last is the
\* whole pile and the cards under it are the deck again
C1_Witness ==
    /\ lastCall = "drawCard"
    /\ gameState.discardPile = <<Card("Clubs", "J")>>
    /\ Len(gameState.deck) > 0

\* C2: currentPlayerIndex is always a valid index, and advancing s steps gives
\* the mathematical residue of index + direction * s modulo the player count.
C2_TurnIndexValid ==
    LET n == Len(gameState.players)
        index == gameState.currentPlayerIndex
    IN /\ index \in 0..(n - 1)
       /\ \A s \in 0..2 :
            advanceTurn(gameState, s).currentPlayerIndex
                = (index + gameState.direction * s) % n

\* the turn has wrapped backwards from player 0 to the last player
C2_Witness ==
    /\ gameState.direction = -1
    /\ gameState.lastAction = "Reverse"
    /\ gameState.currentPlayerIndex = Len(gameState.players) - 1

\* C3: once winnerId is set, playCard with any card id and drawCard return a
\* state with the same hands, piles, turn, direction and pending fields.
C3_WinExclusive ==
    gameState.winnerId # Null =>
        /\ \A cardId \in CardIds : \A rOpp \in RandomsFor(cardId), rCard \in RandomsFor(cardId) :
              SamePlay(playCard(gameState, cardId, rOpp, rCard), gameState)
        /\ \A shuffle \in Shuffles : SamePlay(drawCard(gameState, shuffle), gameState)

\* drawCard has been called on a won game
C3_Witness ==
    /\ gameState.winnerId # Null
    /\ lastCall = "drawCard"

\* C4: once winnerId is set no later transition changes it.
C4_WinnerImmutable ==
    [][gameState.winnerId # Null => gameState'.winnerId = gameState.winnerId]_vars

\* the fields no transition may change once the game is won
SameGameplay(a, b) == SamePlay(a, b) /\ a.chosenSuit = b.chosenSuit

\* C5: in a won game every engine transition leaves the gameplay state alone.
C5_TerminalNoOp ==
    gameState.winnerId # Null =>
        /\ \A cardId \in CardIds : \A rOpp \in RandomsFor(cardId), rCard \in RandomsFor(cardId) :
              SameGameplay(playCard(gameState, cardId, rOpp, rCard), gameState)
        /\ \A shuffle \in Shuffles : SameGameplay(drawCard(gameState, shuffle), gameState)
        /\ \A suit \in SuitSet : SameGameplay(chooseSuit(gameState, suit), gameState)
        /\ \A target \in PlayerIds : SameGameplay(swapWith(gameState, target), gameState)
        /\ SameGameplay(botChooseSuit(gameState), gameState)
        /\ SameGameplay(botChooseSwap(gameState), gameState)

EmptyHanded(state) == {i \in 1..Len(state.players) : state.players[i].hand = <<>>}

\* C6: winnerId is set exactly when some hand is empty, and then exactly one
\* hand is empty and it is the winner's.
C6_WinnerHasEmptyHand ==
    /\ gameState.winnerId # Null <=> EmptyHanded(gameState) # {}
    /\ gameState.winnerId # Null =>
          /\ Cardinality(EmptyHanded(gameState)) = 1
          /\ \A i \in EmptyHanded(gameState) : gameState.players[i].id = gameState.winnerId

\* C7: pendingSuitChoice and pendingSwap are never both true.
C7_PendingExclusive ==
    ~(gameState.pendingSuitChoice /\ gameState.pendingSwap)

\* C8: while a suit choice or a swap choice is pending, a playCard or drawCard
\* call moves no card of any hand and does not change the turn.
C8_PendingBlocksPlay ==
    [][((gameState.pendingSuitChoice \/ gameState.pendingSwap)
            /\ lastCall' \in {"playCard", "drawCard"})
        => (/\ Hands(gameState') = Hands(gameState)
            /\ gameState'.currentPlayerIndex = gameState.currentPlayerIndex)]_vars

C10_UndoRoundTrip ==
    \A cardId \in CardIds : \A rOpp \in RandomsFor(cardId), rCard \in RandomsFor(cardId) :
        LET undone == undoLastMove(playCard(saveStateForUndo(gameState), cardId, rOpp, rCard))
        IN /\ undone # <<>>
           /\ SamePlay(undone[1], gameState)
           /\ undone[1].winnerId = gameState.winnerId
           /\ undone[1].canUndo = FALSE
           /\ undone[1].previousState = <<>>

\* a card has been played on a saved state, and undoing it gives the snapshot
C10_Witness ==
    /\ lastCall = "playCard"
    /\ gameState.canUndo
    /\ gameState.previousState # <<>>
    /\ gameState.discardPile # gameState.previousState[1].discardPile
    /\ undoLastMove(gameState) # <<>>
    /\ SamePlay(undoLastMove(gameState)[1], gameState.previousState[1])

\* C11: the snapshot of every reachable state holds no snapshot of its own and
\* has canUndo false, and undoLastMove of the result of a successful
\* undoLastMove gives null.
C11_SingleUndoLevel ==
    /\ gameState.previousState # <<>> =>
          /\ gameState.previousState[1].previousState = <<>>
          /\ ~gameState.previousState[1].canUndo
    /\ undoLastMove(gameState) # <<>> =>
          undoLastMove(undoLastMove(gameState)[1]) = <<>>

\* a state saved, undone and saved again: its snapshot is the undone state
C11_Witness ==
    /\ lastCall = "saveStateForUndo"
    /\ gameState.lastAction = "Move undone"
    /\ gameState.canUndo
    /\ gameState.previousState # <<>>
    /\ gameState.previousState[1].lastAction = "Move undone"
    /\ undoLastMove(undoLastMove(gameState)[1]) = <<>>

\* what saveStateForUndo stores of a state
Snapshot(state) == [state EXCEPT !.previousState = <<>>, !.canUndo = FALSE]

\* C12: in the driver, at every human turn where canUndo is true,
\* previousState is the state the human's latest play or draw was applied to.
C12_UndoIsLastHumanAction ==
    (/\ view = "playing"
     /\ ~CurrentPlayer(gameState).isBot
     /\ gameState.canUndo
     /\ beforeHuman # <<>>)
    => (/\ gameState.previousState # <<>>
        /\ gameState.previousState[1] = Snapshot(beforeHuman[1]))

\* the pickup an attack card adds: 2 for a Two, 5 for a Jack of Spades or Clubs
AttackValue(card) ==
    IF card.rank = "2" THEN 2
    ELSE IF card.rank = "J" /\ card.suit \in {"Spades", "Clubs"} THEN 5
    ELSE 0

\* playing the attack card gives pendingPickup + 2 (or + 5) and moves the turn
\* one step in the current direction
Stacks(state, card) ==
    LET played == playCard(state, card.id, 0, 0)
    IN /\ played.pendingPickup = state.pendingPickup + AttackValue(card)
       /\ played.direction = state.direction
       /\ played.currentPlayerIndex =
              (state.currentPlayerIndex + state.direction) % Len(state.players)

\* C13 as stated: under an attack, playing any Two or black Jack the current
\* player holds adds 2 or 5 to pendingPickup and moves the turn one step.
C13_AttackStacks ==
    gameState.pendingPickup > 0 =>
        \A i \in 1..Len(CurrentPlayer(gameState).hand) :
            LET card == CurrentPlayer(gameState).hand[i]
            IN AttackValue(card) > 0 => Stacks(gameState, card)

\* C13 amended: the same in a game not yet won, for an attack card that is not
\* the current player's last card.
C13_AttackStacksUnlessLast ==
    (gameState.pendingPickup > 0 /\ gameState.winnerId = Null) =>
        \A i \in 1..Len(CurrentPlayer(gameState).hand) :
            LET card == CurrentPlayer(gameState).hand[i]
            IN (AttackValue(card) > 0 /\ Len(CurrentPlayer(gameState).hand) > 1)
                  => Stacks(gameState, card)

\* a Two has been played on an attack of 2: the next player faces 4
C13_Witness ==
    /\ lastCall = "playCard"
    /\ gameState.lastAction = "+2 Cards Attack"
    /\ gameState.pendingPickup = 4
    /\ gameState.winnerId = Null

\* C14 as stated: no engine call other than drawCard lowers pendingPickup.
C14_PickupOnlyDrawLowers ==
    [][lastCall' # "drawCard"
          => gameState'.pendingPickup >= gameState.pendingPickup]_vars

\* C14 amended: no engine call other than drawCard and undoLastMove lowers
\* pendingPickup.
C14_PickupOnlyDrawOrUndoLowers ==
    [][lastCall' \notin {"drawCard", "undoLastMove"}
          => gameState'.pendingPickup >= gameState.pendingPickup]_vars

\* an ordinary card has been played under an attack, which stands
C14_Witness ==
    /\ lastCall = "playCard"
    /\ gameState.lastAction = "played"
    /\ gameState.pendingPickup > 0

Min(a, b) == IF a < b THEN a ELSE b

\* C15: drawCard on a game not won adds min(n, deck + discard pile - 1) cards
\* to the current player's hand, n being pendingPickup or else 1, leaves the
\* other hands alone, clears pendingPickup and moves the turn one step.
C15_DrawCount ==
    gameState.winnerId = Null =>
        \A shuffle \in Shuffles :
            LET me == gameState.currentPlayerIndex + 1
                n == IF gameState.pendingPickup > 0 THEN gameState.pendingPickup ELSE 1
                supply == Len(gameState.deck) + Len(gameState.discardPile) - 1
                drawn == drawCard(gameState, shuffle)
            IN /\ Len(drawn.players[me].hand)
                     = Len(gameState.players[me].hand) + Min(n, supply)
               /\ Range(gameState.players[me].hand) \subseteq Range(drawn.players[me].hand)
               /\ \A i \in 1..Len(gameState.players) :
                     i # me => drawn.players[i].hand = gameState.players[i].hand
               /\ drawn.pendingPickup = 0
               /\ drawn.direction = gameState.direction
               /\ drawn.currentPlayerIndex =
                     (gameState.currentPlayerIndex + gameState.direction)
                         % Len(gameState.players)

\* the pickup is larger than what deck and pile can supply, and drawCard
\* hands over what there is
C15_Witness ==
    /\ gameState.winnerId = Null
    /\ gameState.pendingPickup > Len(gameState.deck) + Len(gameState.discardPile) - 1
    /\ Len(gameState.deck) + Len(gameState.discardPile) - 1 > 0
    /\ Len(drawCard(gameState, 0).players[gameState.currentPlayerIndex + 1].hand)
          = Len(CurrentPlayer(gameState).hand)
              + Len(gameState.deck) + Len(gameState.discardPile) - 1

\* C16: the discard pile of every reachable state holds at least one card.
C16_DiscardNonEmpty ==
    Len(gameState.discardPile) >= 1

\* a draw has recycled the pile: one card remains on it, and the 2 of Hearts,
\* dealt to a hand and played, lies in the deck
C16_Witness ==
    /\ lastCall = "drawCard"
    /\ Len(gameState.discardPile) = 1
    /\ Card("Hearts", "2") \in Range(gameState.deck)

\* C17: when the current player plays its only card, the result names it the
\* winner and differs from the state before only by that card lying on top of
\* the discard pile: no effect of the card's rank is applied.
C17_WinningCardNoEffect ==
    (gameState.winnerId = Null /\ Len(CurrentPlayer(gameState).hand) = 1) =>
        LET me == gameState.currentPlayerIndex + 1
            card == CurrentPlayer(gameState).hand[1]
        IN \A rOpp \in RandomsFor(card.id), rCard \in RandomsFor(card.id) :
            LET won == playCard(gameState, card.id, rOpp, rCard)
            IN /\ won.winnerId = CurrentPlayer(gameState).id
               /\ won.pendingPickup = gameState.pendingPickup
               /\ won.direction = gameState.direction
               /\ won.currentPlayerIndex = gameState.currentPlayerIndex
               /\ won.pendingSuitChoice = gameState.pendingSuitChoice
               /\ won.pendingSwap = gameState.pendingSwap
               /\ won.peekingCard = gameState.peekingCard
               /\ won.deck = gameState.deck
               /\ won.players[me].hand = <<>>
               /\ \A i \in 1..Len(gameState.players) :
                     i # me => won.players[i].hand = gameState.players[i].hand
               /\ won.discardPile = Append(gameState.discardPile, card)

\* a game won with a 2 under an attack of 4: the attack stands at 4 and the
\* turn is still the winner's
C17_Witness ==
    /\ lastCall = "playCard"
    /\ gameState.winnerId = CurrentPlayer(gameState).id
    /\ Last(gameState.discardPile) = Card("Spades", "2")
    /\ gameState.pendingPickup = 4
    /\ CurrentPlayer(gameState).hand = <<>>

\* the ids of the cards in a hand
IdsOf(hand) == {hand[i].id : i \in 1..Len(hand)}

\* C18: a rejected call returns its input: playCard with a card id the current
\* player does not hold, chooseSuit with no suit choice pending, swapWith
\* with no swap pending or with a target that is no player; undoLastMove
\* returns null when canUndo is false or there is no previousState.
C18_RejectedCallsKeepState ==
    /\ \A cardId \in CardIds \ IdsOf(CurrentPlayer(gameState).hand) :
          \A rOpp \in RandomsFor(cardId), rCard \in RandomsFor(cardId) :
             playCard(gameState, cardId, rOpp, rCard) = gameState
    /\ ~gameState.pendingSuitChoice =>
          \A suit \in SuitSet : chooseSuit(gameState, suit) = gameState
    /\ \A target \in PlayerIds :
          (~gameState.pendingSwap \/ FindPlayerById(gameState.players, target) = 0)
             => swapWith(gameState, target) = gameState
    /\ (~gameState.canUndo \/ gameState.previousState = <<>>)
          => undoLastMove(gameState) = <<>>

\* swapWith has been called with a swap pending and has left it pending: its
\* target was no player; the cards the other players hold are refused
C18_Witness ==
    /\ lastCall = "swapWith"
    /\ gameState.pendingSwap
    /\ gameState.lastAction = "SWAP choose"
    /\ \E i \in 1..Len(gameState.players) :
          /\ i # gameState.currentPlayerIndex + 1
          /\ IdsOf(gameState.players[i].hand) # {}
          /\ \A cardId \in IdsOf(gameState.players[i].hand) :
                playCard(gameState, cardId, 0, 0) = gameState

\* C19: with no attack pending a Queen is a legal move on every top card.
C19_QueenIsWild ==
    (/\ moveCheck # <<>>
     /\ moveCheck[1].pendingPickup = 0
     /\ moveCheck[1].card.rank = "Q")
    => moveCheck[1].result

C21_ClosureOnLatestState ==
    [][lastCall' = "onTransitionEnd" =>
          (flyingCard # <<>> /\ flyingCard[1].gameState = gameState)]_vars

\* the cards the current player can play without emptying the hand
NonWinningCards(state) ==
    IF state.winnerId # Null \/ Len(CurrentPlayer(state).hand) < 2 THEN {}
    ELSE Range(CurrentPlayer(state).hand)

\* the index s steps on from the current player in the current direction
StepsOn(state, s) ==
    (state.currentPlayerIndex + state.direction * s) % Len(state.players)

\* C22: playing an Eight that is not the last card keeps the turn in a
\* 2-player game and moves it two steps in the current direction with 3 or 4
\* players; pendingPickup, direction and the pending flags stay as they were.
C22_EightSkipsNext ==
    \A card \in NonWinningCards(gameState) :
        LET after == playCard(gameState, card.id, 0, 0)
        IN card.rank = "8" =>
            /\ after.currentPlayerIndex =
                   IF Len(gameState.players) = 2 THEN gameState.currentPlayerIndex
                   ELSE StepsOn(gameState, 2)
            /\ after.pendingPickup = gameState.pendingPickup
            /\ after.direction = gameState.direction
            /\ after.pendingSuitChoice = gameState.pendingSuitChoice
            /\ after.pendingSwap = gameState.pendingSwap

\* an Eight has been played against the seating order in a 3-player game
C22_Witness ==
    /\ lastCall = "playCard"
    /\ gameState.lastAction = "SKIP"
    /\ Len(gameState.players) = 3
    /\ gameState.direction = -1
    /\ gameState.winnerId = Null

\* C23: playing an Ace that is not the last card keeps direction and turn in
\* a 2-player game; with 3 or 4 players it negates direction and moves the
\* turn to the player one step back in the old direction.
C23_AceReverses ==
    \A card \in NonWinningCards(gameState) :
        LET after == playCard(gameState, card.id, 0, 0)
        IN card.rank = "A" =>
            IF Len(gameState.players) = 2
            THEN /\ after.direction = gameState.direction
                 /\ after.currentPlayerIndex = gameState.currentPlayerIndex
            ELSE /\ after.direction = 0 - gameState.direction
                 /\ after.currentPlayerIndex = StepsOn(gameState, -1)

\* a second Ace has turned a 4-player game forwards again
C23_Witness ==
    /\ lastCall = "playCard"
    /\ gameState.lastAction = "Reverse"
    /\ Len(gameState.players) = 4
    /\ gameState.direction = 1
    /\ gameState.winnerId = Null

\* the cards of a and b lie where they lay
SameCards(a, b) ==
    /\ Hands(a) = Hands(b)
    /\ a.deck = b.deck
    /\ a.discardPile = b.discardPile

\* C24: playing a Queen that is not the last card sets pendingSuitChoice and
\* keeps the turn; the chooseSuit that follows records the suit, clears
\* pendingSuitChoice, moves no card and passes the turn one step on in the
\* current direction.
C24_QueenThenChooseSuit ==
    \A card \in NonWinningCards(gameState) :
        LET after == playCard(gameState, card.id, 0, 0)
        IN card.rank = "Q" =>
            /\ after.pendingSuitChoice
            /\ after.currentPlayerIndex = gameState.currentPlayerIndex
            /\ \A s \in SuitSet :
                  LET chosen == chooseSuit(after, s)
                  IN /\ chosen.chosenSuit = s
                     /\ ~chosen.pendingSuitChoice
                     /\ SameCards(chosen, after)
                     /\ chosen.direction = after.direction
                     /\ chosen.currentPlayerIndex = StepsOn(after, 1)

\* chooseSuit has resolved the Queen on top of the discard pile
C24_Witness ==
    /\ lastCall = "chooseSuit"
    /\ gameState.lastAction = "Changed suit"
    /\ Last(gameState.discardPile).rank = "Q"
    /\ gameState.chosenSuit = "Spades"
    /\ ~gameState.pendingSuitChoice

\* C25: playing a King that is not the last card swaps the two hands of a
\* 2-player game at once (the opponent gets the acting hand without the King,
\* the acting player the opponent's hand), leaves pendingSwap false and passes
\* the turn on; with 3 or 4 players it moves no hand, sets pendingSwap and
\* keeps the turn.
C25_KingSwaps ==
    \A card \in NonWinningCards(gameState) :
        LET after == playCard(gameState, card.id, 0, 0)
            me == gameState.currentPlayerIndex + 1
            hand == gameState.players[me].hand
            rest == RemoveAt(hand, FindCardIndex(hand, card.id))
        IN card.rank = "K" =>
            IF Len(gameState.players) = 2
            THEN /\ after.players[3 - me].hand = rest
                 /\ after.players[me].hand = gameState.players[3 - me].hand
                 /\ ~after.pendingSwap
                 /\ after.currentPlayerIndex = StepsOn(gameState, 1)
            ELSE /\ Hands(after) = [Hands(gameState) EXCEPT ![me] = rest]
                 /\ after.pendingSwap
                 /\ after.currentPlayerIndex = gameState.currentPlayerIndex

\* a King has exchanged the hands of a 2-player game
C25_Witness ==
    /\ lastCall = "playCard"
    /\ gameState.lastAction = "SWAP exchanged"
    /\ Len(gameState.players) = 2
    /\ Len(gameState.players[1].hand) = 7
    /\ Len(gameState.players[2].hand) = 6

\* C26: with a swap pending, swapWith of an existing player gives the current
\* player that player's hand and that player the current player's hand,
\* leaves every other hand, the deck and the discard pile alone, clears
\* pendingSwap and passes the turn one step on in the current direction.
C26_SwapWithExchanges ==
    gameState.pendingSwap =>
        \A target \in PlayerIds :
            LET t == FindPlayerById(gameState.players, target)
                me == gameState.currentPlayerIndex + 1
                after == swapWith(gameState, target)
            IN t # 0 =>
                /\ after.players[me].hand = gameState.players[t].hand
                /\ after.players[t].hand = gameState.players[me].hand
                /\ \A i \in 1..Len(gameState.players) \ {me, t} :
                      after.players[i].hand = gameState.players[i].hand
                /\ after.deck = gameState.deck
                /\ after.discardPile = gameState.discardPile
                /\ ~after.pendingSwap
                /\ after.direction = gameState.direction
                /\ after.currentPlayerIndex = StepsOn(gameState, 1)

\* swapWith has given the player who played a King the 7 cards of another
C26_Witness ==
    /\ lastCall = "swapWith"
    /\ gameState.lastAction = "swapped"
    /\ Last(gameState.discardPile).rank = "K"
    /\ ~gameState.pendingSwap
    /\ \E i \in 1..Len(gameState.players) :
          /\ Len(gameState.players[i].hand) = 6
          /\ StepsOn(gameState, -1) # i - 1
    /\ Len(gameState.players[StepsOn(gameState, -1) + 1].hand) = 7

\* C27: playing a Seven that is not the last card leaves the pending flags and
\* pendingPickup alone and passes the turn one step on; it shows a card that
\* lies in the hand of the player named by peekingPlayerId, who is not the
\* acting player, and changes no hand but the acting player's.
C27_SevenPeeks ==
    \A card \in NonWinningCards(gameState) :
        \A rOpp \in Randoms, rCard \in Randoms :
            LET after == playCard(gameState, card.id, rOpp, rCard)
                me == gameState.currentPlayerIndex + 1
                hand == gameState.players[me].hand
                rest == RemoveAt(hand, FindCardIndex(hand, card.id))
                seen == FindPlayerById(after.players, after.peekingPlayerId)
            IN card.rank = "7" =>
                /\ after.pendingSuitChoice = gameState.pendingSuitChoice
                /\ after.pendingSwap = gameState.pendingSwap
                /\ after.pendingPickup = gameState.pendingPickup
                /\ after.direction = gameState.direction
                /\ after.currentPlayerIndex = StepsOn(gameState, 1)
                /\ seen # 0 /\ seen # me
                /\ after.peekingCard # <<>>
                /\ after.peekingCard[1] \in Range(after.players[seen].hand)
                /\ Hands(after) = [Hands(gameState) EXCEPT ![me] = rest]

\* a Seven has shown a card of the third of four players
C27_Witness ==
    /\ lastCall = "playCard"
    /\ gameState.lastAction = "PEEK"
    /\ Len(gameState.players) = 4
    /\ gameState.peekingPlayerId = gameState.players[3].id
    /\ gameState.peekingCard # <<>>
    /\ gameState.peekingCard[1] \in Range(gameState.players[3].hand)

\* C28: createNewGame, whatever integer numPlayers is, finds a start card and
\* returns N = numPlayers clamped to 2..4 players with 7 cards each, one card
\* on the discard pile, 52 - 7N - 1 cards in the deck, the 52 cards once
\* each, player 0 to move forwards, and no winner, attack, pending choice,
\* chosen suit, peek or undo snapshot.
C28_NewGameWellFormed ==
    moveCheck # <<>> =>
        LET numPlayers == moveCheck[1].numPlayers
            N == IF numPlayers < 2 THEN 2 ELSE IF numPlayers > 4 THEN 4 ELSE numPlayers
        IN /\ Len(moveCheck[1].shuffled) - 7 * N >= 1
           /\ Len(gameState.players) = N
           /\ \A i \in 1..N : Len(gameState.players[i].hand) = 7
           /\ Len(gameState.discardPile) = 1
           /\ Len(gameState.deck) = 52 - 7 * N - 1
           /\ Len(AllCards(gameState)) = 52
           /\ Range(AllCards(gameState)) = Cards
           /\ gameState.currentPlayerIndex = 0
           /\ gameState.direction = 1
           /\ gameState.winnerId = Null
           /\ gameState.pendingPickup = 0
           /\ ~gameState.pendingSuitChoice /\ ~gameState.pendingSwap
           /\ gameState.chosenSuit = Null
           /\ gameState.peekingCard = <<>>
           /\ gameState.previousState = <<>>
           /\ ~gameState.canUndo

\* createNewGame asked for more than 4 players has dealt to 4
C28_Witness ==
    /\ moveCheck # <<>>
    /\ moveCheck[1].numPlayers > 4
    /\ Len(gameState.players) = 4
    /\ Len(gameState.deck) = 23

\* C29: drawCard keeps the top card of the discard pile. When the draw needs
\* more cards than the deck holds and the pile has k > 1 cards, the pile
\* becomes its old top card alone and the other k - 1 cards, only those, are
\* the new deck the remaining cards are drawn from; the pile is recycled once
\* at most, so a draw that needs no recycling leaves the whole pile alone.
C29_RecycleKeepsTopCard ==
    \A shuffle \in Shuffles :
        LET after == drawCard(gameState, shuffle)
            me == gameState.currentPlayerIndex + 1
            deck == gameState.deck
            pile == gameState.discardPile
            k == Len(pile)
            countToDraw == IF gameState.pendingPickup > 0
                           THEN gameState.pendingPickup ELSE 1
            drawn == Range(after.players[me].hand) \ Range(gameState.players[me].hand)
            left == (k - 1) - (countToDraw - Len(deck))
        IN /\ Last(after.discardPile) = Last(pile)
           /\ gameState.winnerId = Null =>
                IF Len(deck) < countToDraw /\ k > 1
                THEN /\ after.discardPile = <<Last(pile)>>
                     /\ Range(deck) \subseteq drawn
                     /\ Range(after.deck) \cup (drawn \ Range(deck)) = Range(Front(pile))
                     /\ Len(after.deck) = IF left > 0 THEN left ELSE 0
                ELSE after.discardPile = pile

\* a draw of 5 has emptied the deck of 4, recycled the pile under the Jack of
\* Spades and drawn the fifth card from the recycled cards
C29_Witness ==
    /\ lastCall = "drawCard"
    /\ gameState.discardPile = <<Card("Spades", "J")>>
    /\ gameState.lastAction = "had to pick up"
    /\ Len(gameState.deck) = 4
    /\ gameState.pendingPickup = 0

\* the cards of the current player's hand that isValidMove accepts
LegalCards(state) ==
    {card \in Range(CurrentPlayer(state).hand) :
        isValidMove(card, Last(state.discardPile), state.pendingPickup)}

\* C30: for every difficulty and every random draw, getBotDecision plays only
\* a legal card of the current player's hand, draws when there is none, and
\* with a legal card in hand draws only as an easy bot under no attack.
C30_BotDecisionSound ==
    \A difficulty \in Difficulties, rDraw \in Randoms, rIndex \in Randoms :
        LET decision == getBotDecision([gameState EXCEPT !.difficulty = difficulty],
                                       rDraw, rIndex)
            legal == LegalCards(gameState)
        IN /\ decision.action \in {"play", "draw"}
           /\ decision.action = "play" => \E card \in legal : card.id = decision.cardId
           /\ legal = {} => decision.action = "draw"
           /\ (legal # {} /\ decision.action = "draw")
                 => (difficulty = "easy" /\ gameState.pendingPickup = 0)

\* an easy bot attacked with a Two has decided to play one of its Twos
C30_Witness ==
    /\ lastCall = "botTimer"
    /\ gameState.difficulty = "easy"
    /\ gameState.pendingPickup = 2
    /\ flyingCard # <<>>
    /\ flyingCard[1].by = "bot"
    /\ flyingCard[1].action = "play"
    /\ flyingCard[1].cardId = Card("Clubs", "2").id

\* the card is a Two or a Jack of Spades or Clubs
AttackClass(card) == AttackValue(card) > 0

\* the position in the legal moves of the card a bot of this difficulty
\* decides to play; 0 when it draws or names no legal move
BotChoice(state, difficulty) ==
    LET legal == ValidMoves(state)
        decision == getBotDecision([state EXCEPT !.difficulty = difficulty], 0, 0)
        chosen == {i \in 1..Len(legal) : legal[i].id = decision.cardId}
    IN IF decision.action = "play" /\ chosen # {}
       THEN CHOOSE i \in chosen : TRUE ELSE 0

\* among the legal moves of its attack class, move i has a suit of the
\* highest (most) or lowest (~most) count in the hand and is the first such
\* move in hand order
BestOfClass(legal, hand, i, most) ==
    /\ \A j \in 1..Len(legal) :
          AttackClass(legal[j]) = AttackClass(legal[i]) =>
             IF most
             THEN SuitCount(hand, legal[j].suit) <= SuitCount(hand, legal[i].suit)
             ELSE SuitCount(hand, legal[j].suit) >= SuitCount(hand, legal[i].suit)
    /\ \A j \in 1..(i - 1) :
          ~(/\ AttackClass(legal[j]) = AttackClass(legal[i])
            /\ SuitCount(hand, legal[j].suit) = SuitCount(hand, legal[i].suit))

\* C31: a medium bot with a legal move plays an attack card whenever one is
\* legal; among the legal moves of that attack class it plays one of the suit
\* it holds most of, the first of these in hand order.
C31_MediumBotChoice ==
    LET legal == ValidMoves(gameState)
        hand == CurrentPlayer(gameState).hand
        i == BotChoice(gameState, "medium")
    IN legal # <<>> =>
        /\ i # 0
        /\ (\E j \in 1..Len(legal) : AttackClass(legal[j])) => AttackClass(legal[i])
        /\ BestOfClass(legal, hand, i, TRUE)

\* a medium bot has passed over the first card of its hand, a legal Spade,
\* for the first legal card of its suits of three cards
C31_Witness ==
    /\ lastCall = "botTimer"
    /\ gameState.difficulty = "medium"
    /\ flyingCard # <<>>
    /\ flyingCard[1].action = "play"
    /\ flyingCard[1].cardId = Card("Clubs", "3").id
    /\ CurrentPlayer(gameState).hand[1] = Card("Spades", "3")
    /\ Len(ValidMoves(gameState)) = 5

\* the first player who is no bot; 0 when every player is a bot
FirstHuman(state) ==
    LET humans == {i \in 1..Len(state.players) : ~state.players[i].isBot}
    IN IF humans = {} THEN 0 ELSE CHOOSE i \in humans : \A j \in humans : i <= j

\* C32: a hard bot with a legal move plays an attack card whenever one is
\* legal if the first human holds 3 cards or fewer, and a plain card whenever
\* one is legal otherwise; among the legal moves of that attack class it plays
\* one of the suit it holds least of, the first of these in hand order.
C32_HardBotChoice ==
    LET legal == ValidMoves(gameState)
        hand == CurrentPlayer(gameState).hand
        i == BotChoice(gameState, "hard")
        human == FirstHuman(gameState)
        close == human # 0 /\ Len(gameState.players[human].hand) <= 3
    IN legal # <<>> =>
        /\ i # 0
        /\ IF close
           THEN (\E j \in 1..Len(legal) : AttackClass(legal[j])) => AttackClass(legal[i])
           ELSE (\E j \in 1..Len(legal) : ~AttackClass(legal[j])) => ~AttackClass(legal[i])
        /\ BestOfClass(legal, hand, i, FALSE)

\* the first suit in declaration order of which the hand holds the most cards
MostHeldSuit(hand) ==
    LET Most(i) == \A j \in 1..Len(Suits) :
                       SuitCount(hand, Suits[j]) <= SuitCount(hand, Suits[i])
        first == CHOOSE i \in 1..Len(Suits) : Most(i) /\ \A j \in 1..(i - 1) : ~Most(j)
    IN Suits[first]

\* C33: with a suit choice pending, botChooseSuit chooses the suit the
\* current player holds most of, the first in the order Hearts, Diamonds,
\* Clubs, Spades when several tie, whatever the order of the hand; it clears
\* pendingSuitChoice and passes the turn one step on.
C33_BotChoosesMostHeldSuit ==
    gameState.pendingSuitChoice =>
        LET after == botChooseSuit(gameState)
        IN /\ after.chosenSuit = MostHeldSuit(CurrentPlayer(gameState).hand)
           /\ ~after.pendingSuitChoice
           /\ SameCards(after, gameState)
           /\ after.currentPlayerIndex = StepsOn(gameState, 1)

\* the first player in player order, other than the current one, whose hand
\* is the smallest of the other players' hands (1-based)
SmallestOther(state) ==
    LET me == state.currentPlayerIndex + 1
        others == (1..Len(state.players)) \ {me}
        Smallest(i) == \A j \in others :
                          Len(state.players[i].hand) <= Len(state.players[j].hand)
    IN CHOOSE i \in others : Smallest(i) /\ \A j \in others : j < i => ~Smallest(j)

\* C34: with a swap pending, botChooseSwap exchanges the current player's
\* hand with the hand of the player with the fewest cards among the others,
\* the first of these in player order.
C34_BotSwapsWithSmallest ==
    gameState.pendingSwap =>
        LET after == botChooseSwap(gameState)
            me == gameState.currentPlayerIndex + 1
            t == SmallestOther(gameState)
        IN /\ t # me
           /\ Hands(after) = [Hands(gameState) EXCEPT ![me] = gameState.players[t].hand,
                                                      ![t] = gameState.players[me].hand]
           /\ ~after.pendingSwap

\* botChooseSwap has passed over the second player's 8 cards and given
\* player 0 the six cards of the third
C34_Witness ==
    /\ lastCall = "botChooseSwap"
    /\ ~gameState.pendingSwap
    /\ Len(gameState.players) = 3
    /\ Len(gameState.players[1].hand) = 6
    /\ Len(gameState.players[2].hand) = 8
    /\ Len(gameState.players[3].hand) = 5


\* the calls that may lie between saveStateForUndo and undoLastMove
MoveCalls ==
    {"playCard", "drawCard", "chooseSuit", "swapWith", "botChooseSuit", "botChooseSwap",
     "clearPeek"}

\* C35: undoLastMove of the state saveStateForUndo returns for S equals S in
\* hands, piles, turn, direction, pendingPickup and pending flags, and every
\* playCard, drawCard, chooseSuit, swapWith, botChooseSuit, botChooseSwap and
\* clearPeek call leaves the result of undoLastMove as it was: the snapshot
\* survives any sequence of these calls.
C35_SnapshotSurvives ==
    [][/\ lastCall' = "saveStateForUndo" =>
            /\ undoLastMove(gameState') # <<>>
            /\ SamePlay(undoLastMove(gameState')[1], gameState)
       /\ lastCall' \in MoveCalls =>
            undoLastMove(gameState') = undoLastMove(gameState)]_vars

\* a draw after the snapshot has recycled the discard pile, and undoLastMove
\* still gives the saved state with its empty deck
C35_Witness ==
    /\ lastCall = "drawCard"
    /\ gameState.canUndo
    /\ gameState.deck # <<>>
    /\ undoLastMove(gameState) # <<>>
    /\ undoLastMove(gameState)[1].deck = <<>>
    /\ Len(undoLastMove(gameState)[1].discardPile) > Len(gameState.discardPile)


\* C36: in every reachable state canUndo is true exactly when previousState
\* is set, so undoLastMove returns null exactly when canUndo is false.
C36_CanUndoIffSnapshot ==
    /\ gameState.canUndo <=> gameState.previousState # <<>>
    /\ undoLastMove(gameState) = <<>> <=> ~gameState.canUndo

\* a move has been undone: the restored state has neither flag nor snapshot
C36_Witness ==
    /\ lastCall = "undoLastMove"
    /\ gameState.lastAction = "Move undone"
    /\ ~gameState.canUndo
    /\ gameState.previousState = <<>>
    /\ undoLastMove(gameState) = <<>>


\* 2 for every Two and 5 for every Jack of Spades or Clubs in a pile
RECURSIVE AttackLoad(_)
AttackLoad(pile) ==
    IF pile = <<>> THEN 0 ELSE AttackValue(Head(pile)) + AttackLoad(Tail(pile))

\* C37: pendingPickup never exceeds 2 for every Two plus 5 for every Jack of
\* Spades or Clubs in the discard pile; so it lies in 0..18, and a forced
\* draw asks for at most 18 cards.
C37_PickupBounded ==
    LET countToDraw == IF gameState.pendingPickup > 0 THEN gameState.pendingPickup ELSE 1
    IN /\ gameState.pendingPickup <= AttackLoad(gameState.discardPile)
       /\ gameState.pendingPickup \in 0..18
       /\ countToDraw <= 18

\* all four Twos and both black Jacks have been stacked: the next player
\* faces 18
C37_Witness ==
    /\ lastCall = "playCard"
    /\ gameState.pendingPickup = 18
    /\ AttackLoad(gameState.discardPile) = 18


\* C38: under an attack in a game not won, every card of the current player
\* that isValidMove accepts and that is not the last card is a Two or a Jack
\* of Spades or Clubs, and playing it raises pendingPickup.
C38_DefenceEscalates ==
    (gameState.pendingPickup > 0 /\ gameState.winnerId = Null) =>
        LET hand == CurrentPlayer(gameState).hand
        IN \A i \in 1..Len(hand) :
              (/\ isValidMove(hand[i], Last(gameState.discardPile), gameState.pendingPickup)
               /\ Len(hand) > 1)
              => /\ AttackValue(hand[i]) > 0
                 /\ playCard(gameState, hand[i].id, 0, 0).pendingPickup
                       > gameState.pendingPickup


\* C39: direction is 1 or -1 in every reachable state, and 1 in every
\* reachable state of a game of two players.
C39_DirectionOfTwoPlayers ==
    /\ gameState.direction \in {1, -1}
    /\ Len(gameState.players) = 2 => gameState.direction = 1

\* an Ace has been played in a game of two players: the same player is to
\* move again and the direction is still 1
C39_Witness ==
    /\ lastCall = "playCard"
    /\ Len(gameState.players) = 2
    /\ gameState.lastAction = "Reverse"
    /\ Last(gameState.discardPile).rank = "A"
    /\ gameState.direction = 1

\* a bot is to act in a game on the table that is not won
BotToMove ==
    /\ view = "playing"
    /\ gameState.winnerId = Null
    /\ CurrentPlayer(gameState).isBot

BotChoicePending == gameState.pendingSuitChoice \/ gameState.pendingSwap

\* C40: with the bot timer, the animation ends and the game-over timer firing
\* fairly, a bot that is to move with a suit choice or a swap pending has
\* it resolved, and whenever a bot is to move the turn comes back to the
\* human player or the game is won: the bots' transitions are applied.
C40_BotsNeverStall ==
    /\ (BotToMove /\ BotChoicePending) ~> ~BotChoicePending
    /\ BotToMove ~> (~CurrentPlayer(gameState).isBot \/ gameState.winnerId # Null)

====
